---- MODULE Spec2Model ----
(***************************************************************************)
(* State-machine model of js/main.js, the client-side interaction module   *)
(* of the Sylva landing page: the lifecycle panel, the mobile menu, the    *)
(* waitlist form and the scroll-driven effect controllers.                 *)
(*                                                                         *)
(* Each component has its own specification (SpecLifecycle, SpecMenu,      *)
(* SpecForm, SpecScroll): the components share no state in the source, so  *)
(* each specification moves the variables of one component and leaves the  *)
(* others at their value after construction.                               *)
(***************************************************************************)
EXTENDS Integers, Sequences, FiniteSets, TLC

VARIABLES
    \* ---- page environment, read by the initializers
    reducedMotion,      \* matchMedia('(prefers-reduced-motion: reduce)').matches
    innerWidth,         \* window.innerWidth
    loadWidth,          \* window.innerWidth when the initializers ran (history)
    ev,                 \* the handler that ran last: [type, arg] (history)
    \* ---- initLifecyclePanel
    lcStarted,          \* initLifecyclePanel ran past its element check
    numIndicators,      \* indicators.length
    currentPhase,       \* let currentPhase
    autoRotateInterval, \* let autoRotateInterval (0: undefined)
    liveIntervals,      \* interval timers created and not cleared
    nextTimerId,        \* the id the next setInterval returns
    hovering,           \* pointer is over #lifecycle-display
    touched,            \* a hover or an indicator click has happened (history)
    updateQ,            \* pending 400 ms / 0 ms timeouts of updateDisplay
    restoreQ,           \* pending 50 ms fade-back timeouts of updateDisplay
    display,            \* #lifecycle-display: [phase, title, opacity, scale]
    activeIndicators,   \* indices of indicators carrying class 'active'
    lcErrors,           \* uncaught TypeErrors raised by display timeouts
    \* ---- initMobileMenu
    menuStarted,        \* initMobileMenu ran past its element check
    menu,               \* isMenuOpen, scrollbarWidth, the DOM they mirror and
                        \* the pending 50 ms focus timeouts of toggleMenu
    activeElement,      \* document.activeElement
    resizeTimers,       \* pending 100 ms resize timeouts
    numNavItems,        \* navItems.length
    loadFired,          \* the window's load event has been dispatched
    \* ---- initWaitlistForm
    fields,             \* what the form's inputs hold: "filled" or "empty"
    button,             \* the submit button: [disabled, label, classes]
    requests,           \* fetches in flight, each with its handler's
                        \* originalButtonText
    messages,           \* status messages attached to the form
    timers,             \* pending timeouts of the submit handler, oldest first
    posts,              \* POSTs issued to form.action
    submits,            \* submit events dispatched (history)
    logged,             \* console.error calls
    formErrors,         \* uncaught TypeErrors raised by the submit handler
    response,           \* what the fetch settled with last (history)
    \* ---- scroll controllers (initHeroFade, initOrbParallax,
    \*      initDarkModeTransitions, navbar, initSectionHighlighting)
    scrollY,            \* window.scrollY / window.pageYOffset
    listeners,          \* controllers whose scroll listener is registered
    ticking,            \* let ticking of hero, orb and dark
    frames,             \* pending requestAnimationFrame callbacks, per controller
    scrollTimeout,      \* the navbar's let scrollTimeout: "undefined", or
                        \* the id of a "pending" or of a "stale" (run) callback
    runs,               \* runs of each update function since the last frame
                        \* began (history)
    styledAt,           \* scroll position whose opacity/transform styles each
                        \* of hero, orb, dark has applied (-1: none written)
    geometry,           \* the layout the controllers read (never changes)
    styles,             \* what hero, orb and dark have written: the hero's
                        \* opacity and transform, each orb's opacity and
                        \* transform, #vision's 'dark-mode' and --dark-opacity
    fineTop,            \* #vision's getBoundingClientRect().top at a
                        \* sub-pixel scroll position, in steps of 2^-15 px
    fineDark,           \* what updateSectionThemes writes at fineTop when
                        \* its arithmetic is rounded as binary64
    navbar,             \* the navbar: [scrolled, lastScrollY, transition]
    activeLinks,        \* hrefs of the '.nav-link's carrying class 'active'
    page,               \* the markup initSectionHighlighting found: the
                        \* section[id] elements in document order and the
                        \* hrefs of the '.nav-link's (never changes)
    \* ---- initSmoothScrolling
    anchorTimers,       \* pending 1000 ms timeouts of the anchor click
                        \* handler, oldest first: the href of the link each
                        \* will take class 'active' from
    \* ---- reveal on scroll (initScrollAnimations, initHighlightEffects)
    animateIn,          \* reveal elements carrying class 'animate-in'
    observed,           \* elements the reveal observer observes
    cardOpacity,        \* inline opacity of each card ("": none written)
    cardObserved,       \* cards the card observer observes
    cardTimers,         \* cards whose stagger timeout is pending
    \* ---- documentation (handleDocumentationLinks, VitePress config)
    nodeEnv,            \* process.env.NODE_ENV of the VitePress process
    docsConfig,         \* the config it evaluated: [base, backLink]
    docsPort,           \* the port the VitePress dev server listens on
    hostname,           \* window.location.hostname of the page
    anchors             \* the page's <a> elements: [href, target, rel]

lcVars == <<lcStarted, numIndicators, currentPhase, autoRotateInterval,
            liveIntervals, nextTimerId, hovering, touched, updateQ, restoreQ,
            display, activeIndicators, lcErrors>>

envVars == <<reducedMotion, innerWidth, loadWidth>>

menuVars == <<menuStarted, menu, activeElement, resizeTimers, numNavItems,
              loadFired>>

formVars == <<fields, button, requests, messages, timers, posts, submits,
              logged, formErrors, response>>

scrollVars == <<scrollY, listeners, ticking, frames, scrollTimeout, runs,
                styledAt, geometry, styles, fineTop, fineDark, navbar,
                activeLinks>>

revealVars == <<animateIn, observed, cardOpacity, cardObserved, cardTimers>>

docsVars == <<nodeEnv, docsConfig, docsPort, hostname, anchors>>

smoothVars == <<anchorTimers>>

pageVars == <<page>>

vars == <<envVars, ev, lcVars, menuVars, formVars, scrollVars, revealVars,
          docsVars, smoothVars, pageVars>>

\* What the handlers of one component leave alone.
notLc == <<envVars, menuVars, formVars, scrollVars, revealVars, docsVars,
           smoothVars, pageVars>>
notMenu == <<reducedMotion, loadWidth, lcVars, formVars, scrollVars, revealVars,
             docsVars, smoothVars, pageVars>>
notForm == <<envVars, lcVars, menuVars, scrollVars, revealVars, docsVars,
             smoothVars, pageVars>>
notScroll == <<envVars, lcVars, menuVars, formVars, revealVars, docsVars,
               smoothVars, pageVars>>
notReveal == <<envVars, lcVars, menuVars, formVars, scrollVars, docsVars,
               smoothVars, pageVars>>
notDocs == <<envVars, lcVars, menuVars, formVars, scrollVars, revealVars,
             smoothVars, pageVars>>
notSmooth == <<envVars, lcVars, menuVars, formVars, revealVars, docsVars,
              pageVars>>

Event(t, a) == [type |-> t, arg |-> a]

(***************************************************************************)
(* Bounds of the model.                                                    *)
(***************************************************************************)
MaxIndicators == 5      \* '.lifecycle-indicator' elements on the page
MaxIntervals == 3       \* setInterval calls of one run
MaxPendingDisplay == 2  \* display timeouts pending at once
MaxErrors == 1          \* uncaught errors counted
MaxNavItems == 2        \* '.nav-link, .nav-cta' elements on the page
MaxFocusTimers == 2     \* focus timeouts pending at once
MaxResizeTimers == 2    \* resize timeouts pending at once
MaxSubmits == 2         \* submit events of one run
MaxScrollsPerFrame == 2 \* scroll events between two animation frames
MaxAnchorTimers == 2    \* 'active' timeouts of anchor clicks pending at once

MobileBreakpoint == 768
Widths == {MobileBreakpoint, MobileBreakpoint + 1}

(***************************************************************************)
(* The guards of the initializers on the reduced-motion preference and on  *)
(* the viewport width.                                                     *)
(***************************************************************************)
heroFadeIgnoresPreference(reduced, width) == width > MobileBreakpoint

orbParallaxIgnoresWidth(reduced, width) == ~reduced

\* initHeroFade goes on to register its listener.
heroFadeEnabled(reduced, width) == ~reduced /\ width > MobileBreakpoint

\* initOrbParallax goes on to register its listener.
orbParallaxEnabled(reduced, width) == ~reduced /\ width > MobileBreakpoint

\* initScrollEffects goes on to its three initializers.
scrollEffectsEnabled(reduced) == ~reduced

(***************************************************************************)
(* JavaScript numbers, as the scroll controllers compute with them.        *)
(* A number is NaN, +Infinity, -Infinity or a finite value n/d kept in     *)
(* lowest terms (d > 0); rounding of finite values is not represented.     *)
(* Every zero divisor of the controllers is +0, so a division by zero      *)
(* takes its sign from the dividend.                                       *)
(***************************************************************************)
Abs(x) == IF x < 0 THEN -x ELSE x

RECURSIVE Gcd(_, _)
Gcd(a, b) == IF b = 0 THEN a ELSE Gcd(b, a % b)

\* The finite number n/d, d # 0.
Num(n, d) ==
    LET s == IF d < 0 THEN -1 ELSE 1
        g == Gcd(Abs(n), Abs(d))
    IN [k |-> "num", n |-> (s * n) \div g, d |-> (s * d) \div g]

NaN == [k |-> "nan", n |-> 0, d |-> 1]
PosInfinity == [k |-> "inf", n |-> 0, d |-> 1]
NegInfinity == [k |-> "ninf", n |-> 0, d |-> 1]
Unset == [k |-> "unset", n |-> 0, d |-> 1]     \* a style never written

IsFinite(x) == x.k = "num"

Sign(x) ==
    IF x.k = "inf" THEN 1
    ELSE IF x.k = "ninf" THEN -1
    ELSE IF x.n > 0 THEN 1 ELSE IF x.n < 0 THEN -1 ELSE 0

Signed(s) == IF s > 0 THEN PosInfinity ELSE NegInfinity

\* a + b
jsAdd(a, b) ==
    IF a.k = "nan" \/ b.k = "nan" THEN NaN
    ELSE IF IsFinite(a) /\ IsFinite(b)
    THEN Num(a.n * b.d + b.n * a.d, a.d * b.d)
    ELSE IF IsFinite(a) THEN b
    ELSE IF IsFinite(b) \/ a.k = b.k THEN a
    ELSE NaN

\* a * b
jsMul(a, b) ==
    IF a.k = "nan" \/ b.k = "nan" THEN NaN
    ELSE IF IsFinite(a) /\ IsFinite(b) THEN Num(a.n * b.n, a.d * b.d)
    ELSE IF Sign(a) = 0 \/ Sign(b) = 0 THEN NaN
    ELSE Signed(Sign(a) * Sign(b))

\* -a and a - b
jsNeg(a) == jsMul(Num(-1, 1), a)

jsSub(a, b) == jsAdd(a, jsNeg(b))

\* a / b
jsDiv(a, b) ==
    IF a.k = "nan" \/ b.k = "nan" THEN NaN
    ELSE IF ~IsFinite(a) THEN IF IsFinite(b)
                              THEN Signed(Sign(a) * (IF Sign(b) < 0 THEN -1 ELSE 1))
                              ELSE NaN
    ELSE IF ~IsFinite(b) THEN Num(0, 1)
    ELSE IF b.n = 0 THEN IF a.n = 0 THEN NaN ELSE Signed(Sign(a))
    ELSE Num(a.n * b.d, a.d * b.n)

\* a < b and a > b: false when either is NaN
jsLt(a, b) ==
    /\ a.k # "nan"
    /\ b.k # "nan"
    /\ \/ a.k = "ninf" /\ b.k # "ninf"
       \/ b.k = "inf" /\ a.k # "inf"
       \/ IsFinite(a) /\ IsFinite(b) /\ a.n * b.d < b.n * a.d

jsGt(a, b) == jsLt(b, a)

\* Math.max(a, b), Math.min(a, b): NaN when either is NaN
MathMax(a, b) ==
    IF a.k = "nan" \/ b.k = "nan" THEN NaN ELSE IF jsLt(a, b) THEN b ELSE a

MathMin(a, b) ==
    IF a.k = "nan" \/ b.k = "nan" THEN NaN ELSE IF jsLt(b, a) THEN b ELSE a

\* Math.sin(turns * Math.PI * 2 + index): NaN for a NaN or infinite
\* argument, otherwise a finite value, kept as the turns it is the sine of.
MathSin(turns) ==
    IF IsFinite(turns) THEN [k |-> "sin", n |-> turns.n, d |-> turns.d]
    ELSE NaN

Zero == Num(0, 1)
One == Num(1, 1)

(***************************************************************************)
(* The same numbers with their rounding: finite binary64 values, each      *)
(* operation rounded to nearest, ties to even, as the JavaScript operators *)
(* round.  A value is m * 2^e with m a natural number of MantissaBits bits *)
(* (or zero); naturals of that size are kept as limbs of 15 bits, least    *)
(* significant first.  The controllers' values stay far from the exponent  *)
(* limits, so overflow and subnormals are not represented.                 *)
(***************************************************************************)
MantissaBits == 53
LimbBits == 15
LimbBase == 2^LimbBits

Big == Seq(Nat)

BigTrim[a \in Big] ==
    IF a # <<>> /\ a[Len(a)] = 0 THEN BigTrim[SubSeq(a, 1, Len(a) - 1)] ELSE a

BigOf[n \in Nat] ==
    IF n = 0 THEN <<>> ELSE <<n % LimbBase>> \o BigOf[n \div LimbBase]

Limb(a, i) == IF i <= Len(a) THEN a[i] ELSE 0

BigAddFrom[a \in Big, b \in Big, i \in Nat, carry \in Nat] ==
    IF i > Len(a) /\ i > Len(b)
    THEN IF carry = 0 THEN <<>> ELSE <<carry>>
    ELSE <<(Limb(a, i) + Limb(b, i) + carry) % LimbBase>>
         \o BigAddFrom[a, b, i + 1, (Limb(a, i) + Limb(b, i) + carry) \div LimbBase]

BigAdd(a, b) == BigAddFrom[a, b, 1, 0]

\* a - b, for a >= b
BigSubFrom[a \in Big, b \in Big, i \in Nat, borrow \in Nat] ==
    IF i > Len(a) THEN <<>>
    ELSE <<(Limb(a, i) - Limb(b, i) - borrow + LimbBase) % LimbBase>>
         \o BigSubFrom[a, b, i + 1,
                       IF Limb(a, i) - Limb(b, i) - borrow < 0 THEN 1 ELSE 0]

BigSub(a, b) == BigTrim[BigSubFrom[a, b, 1, 0]]

BigCmpFrom[a \in Big, b \in Big, i \in Nat] ==
    IF i = 0 THEN 0
    ELSE IF a[i] > b[i] THEN 1
    ELSE IF a[i] < b[i] THEN -1
    ELSE BigCmpFrom[a, b, i - 1]

\* 1, 0 or -1 as a is above, equal to or below b
BigCmp(a, b) ==
    IF Len(a) > Len(b) THEN 1
    ELSE IF Len(a) < Len(b) THEN -1
    ELSE BigCmpFrom[a, b, Len(a)]

\* a * k, for k < LimbBase
BigMulSmallFrom[a \in Big, k \in Nat, i \in Nat, carry \in Nat] ==
    IF i > Len(a)
    THEN IF carry = 0 THEN <<>> ELSE <<carry>>
    ELSE <<(a[i] * k + carry) % LimbBase>>
         \o BigMulSmallFrom[a, k, i + 1, (a[i] * k + carry) \div LimbBase]

BigMulSmall(a, k) == BigTrim[BigMulSmallFrom[a, k, 1, 0]]

Zeros[n \in Nat] == IF n = 0 THEN <<>> ELSE <<0>> \o Zeros[n - 1]

ShiftLimbs(a, n) == IF a = <<>> THEN a ELSE Zeros[n] \o a

BigMulFrom[a \in Big, b \in Big, i \in Nat] ==
    IF i > Len(b) THEN <<>>
    ELSE BigAdd(ShiftLimbs(BigMulSmall(a, b[i]), i - 1), BigMulFrom[a, b, i + 1])

BigMul(a, b) == BigMulFrom[a, b, 1]

\* a * 2^bits and the integer part of a / 2^bits
BigShl(a, bits) ==
    ShiftLimbs(BigMulSmall(a, 2^(bits % LimbBits)), bits \div LimbBits)

BigShrFrom[kept \in Big, r \in Nat, i \in Nat] ==
    IF i > Len(kept) THEN <<>>
    ELSE <<(kept[i] \div 2^r) + (Limb(kept, i + 1) % 2^r) * 2^(LimbBits - r)>>
         \o BigShrFrom[kept, r, i + 1]

BigShr(a, bits) ==
    BigTrim[BigShrFrom[IF bits \div LimbBits >= Len(a) THEN <<>>
                       ELSE SubSeq(a, bits \div LimbBits + 1, Len(a)),
                       bits % LimbBits, 1]]

SmallBits[n \in Nat] == IF n = 0 THEN 0 ELSE 1 + SmallBits[n \div 2]

BitLen(a) ==
    IF a = <<>> THEN 0 ELSE LimbBits * (Len(a) - 1) + SmallBits[a[Len(a)]]

\* One limb of a quotient: the largest k < LimbBase with k * b <= rem, found
\* bit by bit (bit counts down from LimbBits to 1), and what is left of rem.
DivLimbFrom[rem \in Big, b \in Big, bit \in Nat, k \in Nat] ==
    IF bit = 0 THEN [limb |-> k, rem |-> rem]
    ELSE IF BigCmp(rem, BigMulSmall(b, 2^(bit - 1))) >= 0
    THEN DivLimbFrom[BigSub(rem, BigMulSmall(b, 2^(bit - 1))), b, bit - 1,
                     k + 2^(bit - 1)]
    ELSE DivLimbFrom[rem, b, bit - 1, k]

\* quotient and remainder of a / b, b # 0, one quotient limb at a time (j
\* counts down from the number of limbs to 1)
BigDivFrom[rem \in Big, b \in Big, j \in Nat, q \in Big] ==
    IF j = 0 THEN [q |-> BigTrim[q], rem |-> rem]
    ELSE BigDivFrom[DivLimbFrom[rem, ShiftLimbs(b, j - 1), LimbBits, 0].rem, b,
                    j - 1,
                    <<DivLimbFrom[rem, ShiftLimbs(b, j - 1), LimbBits, 0].limb>>
                    \o q]

BigDivMod(a, b) == BigDivFrom[a, b, Len(a) + 1, <<>>]

\* The binary64 values: a sign, a significand and an exponent
F64 == [neg : BOOLEAN, m : Big, e : Int]

F64Zero == [neg |-> FALSE, m |-> <<>>, e |-> 0]

\* The binary64 value nearest to M * 2^E (a little above it when sticky)
F64Round[neg \in BOOLEAN, M \in Big, E \in Int, sticky \in BOOLEAN] ==
    LET L == BitLen(M)
    IN IF L = 0 THEN F64Zero
       ELSE IF L <= MantissaBits
       THEN [neg |-> neg, m |-> BigShl(M, MantissaBits - L),
             e |-> E - (MantissaBits - L)]
       ELSE LET sh == L - MantissaBits
                q == BigShr(M, sh)
                c == BigCmp(BigSub(M, BigShl(q, sh)), BigShl(<<1>>, sh - 1))
                up == c > 0 \/ (c = 0 /\ (sticky \/ q[1] % 2 = 1))
                q1 == IF up THEN BigAdd(q, <<1>>) ELSE q
            IN IF BitLen(q1) > MantissaBits
               THEN [neg |-> neg, m |-> BigShr(q1, 1), e |-> E + sh + 1]
               ELSE [neg |-> neg, m |-> q1, e |-> E + sh]

\* The integer n as a binary64 value
F64Of[n \in Int] == F64Round[n < 0, BigOf[Abs(n)], 0, FALSE]

F64Neg[a \in F64] == IF a.m = <<>> THEN a ELSE [a EXCEPT !.neg = ~a.neg]

\* a + b, a - b, a * b, a / b (b # 0)
F64Add[a \in F64, b \in F64] ==
    IF a.m = <<>> THEN b
    ELSE IF b.m = <<>> THEN a
    ELSE LET e == IF a.e < b.e THEN a.e ELSE b.e
             A == BigShl(a.m, a.e - e)
             B == BigShl(b.m, b.e - e)
             c == BigCmp(A, B)
         IN IF a.neg = b.neg THEN F64Round[a.neg, BigAdd(A, B), e, FALSE]
            ELSE IF c = 0 THEN F64Zero
            ELSE IF c > 0 THEN F64Round[a.neg, BigSub(A, B), e, FALSE]
            ELSE F64Round[b.neg, BigSub(B, A), e, FALSE]

F64Sub[a \in F64, b \in F64] == F64Add[a, F64Neg[b]]

F64Mul[a \in F64, b \in F64] ==
    IF a.m = <<>> \/ b.m = <<>> THEN F64Zero
    ELSE F64Round[a.neg # b.neg, BigMul(a.m, b.m), a.e + b.e, FALSE]

F64Div[a \in F64, b \in F64] ==
    IF a.m = <<>> THEN F64Zero
    ELSE LET dm == BigDivMod(BigShl(a.m, MantissaBits + 3), b.m)
         IN F64Round[a.neg # b.neg, dm.q, a.e - b.e - (MantissaBits + 3),
                     dm.rem # <<>>]

\* a < b
F64Lt[a \in F64, b \in F64] == LET d == F64Sub[a, b] IN d.m # <<>> /\ d.neg

F64Max[a \in F64, b \in F64] == IF F64Lt[a, b] THEN b ELSE a

F64Min[a \in F64, b \in F64] == IF F64Lt[b, a] THEN b ELSE a

\* The decimal literal n/d of the source, e.g. 0.8 as F64Lit[8, 10]
F64Lit[n \in Int, d \in Int] == F64Div[F64Of[n], F64Of[d]]

(***************************************************************************)
(* initLifecyclePanel                                                      *)
(***************************************************************************)
phases ==
    << [name |-> "seed",        title |-> "Seed"],
       [name |-> "operational", title |-> "Operational"],
       [name |-> "vetted",      title |-> "Vetted"],
       [name |-> "prestige",    title |-> "Prestige"] >>

\* phases[phaseIndex] of the source (0-based) is undefined past the list.
PhaseDefined(phaseIndex) == phaseIndex \in 0..(Len(phases) - 1)

PhaseAt(phaseIndex) == phases[phaseIndex + 1]

\* The markup of #lifecycle-display before any script has touched it.
InitialDisplay == [phase |-> "markup", title |-> "markup", opacity |-> "", scale |-> ""]

\* updateDisplay(phaseIndex, animate): the synchronous part. The timeout it
\* sets captures phase = phases[phaseIndex] and phaseIndex.
updateDisplaySync(d, animate) ==
    IF animate THEN [d EXCEPT !.opacity = "0.5", !.scale = "0.98"] ELSE d

updateDisplayTimer(phaseIndex, animate) ==
    [phaseIndex |-> phaseIndex, animate |-> animate]

nextPhaseNoWrap(p) == p + 1

\* nextPhase: currentPhase = (currentPhase + 1) % phases.length
nextPhaseIndex(p) == (p + 1) % Len(phases)

\* stopAutoRotate: the interval timers left live.
stopAutoRotate(handle, live) ==
    IF handle # 0 THEN live \ {handle} ELSE live

\* startAutoRotate: autoRotateInterval = setInterval(nextPhase, 4000)
startAutoRotate(live) == live \cup {nextTimerId}

LcInitWith(n) ==
    /\ numIndicators = n
    /\ lcStarted = (scrollEffectsEnabled(reducedMotion) /\ numIndicators > 0)
    /\ currentPhase = 0
    /\ hovering = FALSE
    /\ touched = FALSE
    /\ display = InitialDisplay
    /\ activeIndicators = {}
    /\ lcErrors = 0
    /\ restoreQ = <<>>
    /\ IF lcStarted
       THEN /\ updateQ = <<updateDisplayTimer(0, FALSE)>>
            /\ autoRotateInterval = 1
            /\ liveIntervals = {1}
            /\ nextTimerId = 2
       ELSE /\ updateQ = <<>>
            /\ autoRotateInterval = 0
            /\ liveIntervals = {}
            /\ nextTimerId = 1

LcInit == \E n \in 0..MaxIndicators : LcInitWith(n)

\* An interval timer fires: nextPhase().
LcTick ==
    /\ lcStarted
    /\ liveIntervals # {}
    /\ Len(updateQ) < MaxPendingDisplay
    /\ currentPhase' = nextPhaseIndex(currentPhase)
    /\ display' = updateDisplaySync(display, TRUE)
    /\ updateQ' = Append(updateQ, updateDisplayTimer(currentPhase', TRUE))
    /\ ev' = Event("tick", currentPhase')
    /\ UNCHANGED <<lcStarted, numIndicators, autoRotateInterval, liveIntervals,
                   nextTimerId, hovering, touched, restoreQ, activeIndicators,
                   lcErrors>>
    /\ UNCHANGED notLc

\* Click on indicator number index: goToPhase(index).  When
\* initLifecyclePanel has not run (initScrollEffects returned before it) the
\* indicator has no listener and the click does nothing.
IndicatorClick(index) ==
    /\ index \in 0..(numIndicators - 1)
    /\ ev' = Event("indicatorClick", index)
    /\ IF ~lcStarted
       THEN UNCHANGED <<touched, currentPhase, display, updateQ, liveIntervals,
                        autoRotateInterval, nextTimerId>>
       ELSE /\ touched' = TRUE
            /\ IF index # currentPhase
               THEN /\ nextTimerId <= MaxIntervals
                    /\ Len(updateQ) < MaxPendingDisplay
                    /\ currentPhase' = index
                    /\ display' = updateDisplaySync(display, TRUE)
                    /\ updateQ' = Append(updateQ, updateDisplayTimer(index, TRUE))
                    \* resetAutoRotate: stopAutoRotate(); startAutoRotate()
                    /\ liveIntervals' =
                           startAutoRotate(stopAutoRotate(autoRotateInterval,
                                                          liveIntervals))
                    /\ autoRotateInterval' = nextTimerId
                    /\ nextTimerId' = nextTimerId + 1
               ELSE UNCHANGED <<currentPhase, display, updateQ, liveIntervals,
                                autoRotateInterval, nextTimerId>>
    /\ UNCHANGED <<lcStarted, numIndicators, hovering, restoreQ,
                   activeIndicators, lcErrors>>
    /\ UNCHANGED notLc

\* mouseenter on the display: stopAutoRotate.
MouseEnter ==
    /\ lcStarted
    /\ ~hovering
    /\ hovering' = TRUE
    /\ touched' = TRUE
    /\ liveIntervals' = stopAutoRotate(autoRotateInterval, liveIntervals)
    /\ ev' = Event("mouseenter", 0)
    /\ UNCHANGED <<lcStarted, numIndicators, currentPhase, autoRotateInterval,
                   nextTimerId, updateQ, restoreQ, display, activeIndicators,
                   lcErrors>>
    /\ UNCHANGED notLc

\* mouseleave on the display: startAutoRotate.
MouseLeave ==
    /\ lcStarted
    /\ hovering
    /\ nextTimerId <= MaxIntervals
    /\ hovering' = FALSE
    /\ touched' = TRUE
    /\ liveIntervals' = startAutoRotate(liveIntervals)
    /\ autoRotateInterval' = nextTimerId
    /\ nextTimerId' = nextTimerId + 1
    /\ ev' = Event("mouseleave", 0)
    /\ UNCHANGED <<lcStarted, numIndicators, currentPhase, updateQ, restoreQ,
                   display, activeIndicators, lcErrors>>
    /\ UNCHANGED notLc

\* The oldest content timeout of updateDisplay fires.
DisplayTimeout ==
    /\ updateQ # <<>>
    /\ LET t == Head(updateQ)
           phase == PhaseAt(t.phaseIndex)
       IN /\ updateQ' = Tail(updateQ)
          /\ ev' = Event("displayTimeout", t.phaseIndex)
          /\ IF ~PhaseDefined(t.phaseIndex)
             THEN \* phase.name throws before anything is written
                  /\ lcErrors < MaxErrors
                  /\ lcErrors' = lcErrors + 1
                  /\ UNCHANGED <<display, activeIndicators, restoreQ>>
             ELSE /\ Len(restoreQ) < MaxPendingDisplay
                  /\ display' = [display EXCEPT !.phase = phase.name,
                                                !.title = phase.title]
                  /\ activeIndicators' =
                         {i \in 0..(numIndicators - 1) : i = t.phaseIndex}
                  /\ restoreQ' = IF t.animate THEN Append(restoreQ, t.phaseIndex)
                                 ELSE restoreQ
                  /\ UNCHANGED lcErrors
    /\ UNCHANGED <<lcStarted, numIndicators, currentPhase, autoRotateInterval,
                   liveIntervals, nextTimerId, hovering, touched>>
    /\ UNCHANGED notLc

\* The oldest fade-back timeout of updateDisplay fires.
RestoreTimeout ==
    /\ restoreQ # <<>>
    /\ restoreQ' = Tail(restoreQ)
    /\ display' = [display EXCEPT !.opacity = "1", !.scale = "1"]
    /\ ev' = Event("restoreTimeout", Head(restoreQ))
    /\ UNCHANGED <<lcStarted, numIndicators, currentPhase, autoRotateInterval,
                   liveIntervals, nextTimerId, hovering, touched, updateQ,
                   activeIndicators, lcErrors>>
    /\ UNCHANGED notLc

LcNext ==
    \/ LcTick
    \/ \E index \in 0..(MaxIndicators - 1) : IndicatorClick(index)
    \/ MouseEnter
    \/ MouseLeave
    \/ DisplayTimeout
    \/ RestoreTimeout

(***************************************************************************)
(* initMobileMenu                                                          *)
(***************************************************************************)
ScrollbarWidths == {0, 15}     \* window.innerWidth - documentElement.clientWidth

\* The menu's markup before any script has touched it: the toggle carries
\* aria-expanded="false" and nothing carries 'active'.
InitialMarkup ==
    [ariaExpanded |-> "false", menuToggle |-> {}, navOverlay |-> {},
     navLinks |-> {"nav-links"}]

\* setAttribute(name, value) stores the string form of a boolean.
BoolToString(b) == IF b THEN "true" ELSE "false"

\* classList.toggle(name, force)
classToggle(classes, name, force) ==
    IF force THEN classes \cup {name} ELSE classes \ {name}

Body == [kind |-> "body", idx |-> 0]
MenuToggleEl == [kind |-> "menuToggle", idx |-> 0]
NavItem(i) == [kind |-> "nav", idx |-> i]
Elsewhere == [kind |-> "other", idx |-> 0]

toggleMenuKeepsScrollLock(m, width) ==
    LET open == ~m.isMenuOpen
    IN [m EXCEPT !.isMenuOpen = open,
                 !.ariaExpanded = BoolToString(open),
                 !.menuToggle = classToggle(@, "active", open),
                 !.navOverlay = classToggle(@, "active", open),
                 !.navLinks = classToggle(@, "active", open),
                 !.scrollbarWidth = IF open THEN width ELSE @,
                 !.bodyScrollbarVar = IF open THEN width ELSE @,
                 !.html = @ \cup {"menu-open"},
                 !.focusTimers = Append(@, IF open THEN "firstNavItem"
                                           ELSE "menuToggle")]

toggleMenuAriaUnset(m, width) ==
    LET open == ~m.isMenuOpen
    IN [m EXCEPT !.isMenuOpen = open,
                 !.ariaExpanded = IF open THEN "true" ELSE "",
                 !.menuToggle = classToggle(@, "active", open),
                 !.navOverlay = classToggle(@, "active", open),
                 !.navLinks = classToggle(@, "active", open),
                 !.scrollbarWidth = IF open THEN width ELSE @,
                 !.bodyScrollbarVar = IF open THEN width ELSE @,
                 !.html = IF open THEN @ \cup {"menu-open"}
                          ELSE @ \ {"menu-open"},
                 !.focusTimers = Append(@, IF open THEN "firstNavItem"
                                           ELSE "menuToggle")]

toggleMenuFocusOnOpenOnly(m, width) ==
    LET open == ~m.isMenuOpen
    IN [m EXCEPT !.isMenuOpen = open,
                 !.ariaExpanded = BoolToString(open),
                 !.menuToggle = classToggle(@, "active", open),
                 !.navOverlay = classToggle(@, "active", open),
                 !.navLinks = classToggle(@, "active", open),
                 !.scrollbarWidth = IF open THEN width ELSE @,
                 !.bodyScrollbarVar = IF open THEN width ELSE @,
                 !.html = IF open THEN @ \cup {"menu-open"}
                          ELSE @ \ {"menu-open"},
                 !.focusTimers = IF open THEN Append(@, "firstNavItem") ELSE @]

\* toggleMenu(); width is what getScrollbarWidth() returns.
toggleMenu(m, width) ==
    LET open == ~m.isMenuOpen
    IN [m EXCEPT !.isMenuOpen = open,
                 !.ariaExpanded = BoolToString(open),
                 !.menuToggle = classToggle(@, "active", open),
                 !.navOverlay = classToggle(@, "active", open),
                 !.navLinks = classToggle(@, "active", open),
                 !.scrollbarWidth = IF open THEN width ELSE @,
                 !.bodyScrollbarVar = IF open THEN width ELSE @,
                 !.html = IF open THEN @ \cup {"menu-open"}
                          ELSE @ \ {"menu-open"},
                 !.focusTimers = Append(@, IF open THEN "firstNavItem"
                                           ELSE "menuToggle")]

closeMenuUnguarded(m, width) == toggleMenu(m, width)

\* closeMenu()
closeMenu(m, width) == IF m.isMenuOpen THEN toggleMenu(m, width) ELSE m

ClickTargets ==
    {"menuToggle", "navOverlay", "navOverlayChild", "navItem", "navLinks",
     "outside"}

ClickEvent ==
    [menuToggle |-> "clickMenuToggle", navOverlay |-> "clickNavOverlay",
     navOverlayChild |-> "clickNavOverlayChild", navItem |-> "clickNavItem",
     navLinks |-> "clickNavLinks", outside |-> "clickOutside"]

\* The listener on the element the click lands on.
targetListener(m, target, width) ==
    CASE target = "menuToggle" -> toggleMenu(m, width)
      [] target = "navOverlay" -> closeMenu(m, width)  \* e.target === navOverlay
      [] target = "navItem"    -> closeMenu(m, width)
      [] OTHER                 -> m

documentListenerOnToggleToo(m, target, width) ==
    IF m.isMenuOpen /\ target \notin {"navItem", "navLinks"}
    THEN closeMenu(m, width)
    ELSE m

\* The click listener on document, which the toggle's stopPropagation skips.
documentListener(m, target, width) ==
    IF /\ target # "menuToggle"
       /\ m.isMenuOpen
       /\ target \notin {"navItem", "navLinks"}     \* !navLinks.contains(target)
    THEN closeMenu(m, width)
    ELSE m

clearTimeoutKeeps(pending) == pending

\* clearTimeout(resizeTimer): the newest resize timeout, if still pending.
clearTimeout(pending) == IF pending > 0 THEN pending - 1 ELSE 0

MenuInitWith(n) ==
    /\ numNavItems = n
    /\ menuStarted = TRUE
    /\ menu = [isMenuOpen |-> FALSE,
               scrollbarWidth |-> 0,
               bodyScrollbarVar |-> -1,
               ariaExpanded |-> InitialMarkup.ariaExpanded,
               menuToggle |-> InitialMarkup.menuToggle,
               navOverlay |-> InitialMarkup.navOverlay,
               navLinks |-> InitialMarkup.navLinks,
               html |-> IF reducedMotion THEN {"js", "reduced-motion"}
                        ELSE {"js"},
               focusTimers |-> <<>>]
    /\ activeElement = Body
    /\ resizeTimers = 0
    /\ loadFired = FALSE

MenuInit == \E n \in 0..MaxNavItems : MenuInitWith(n)

\* A click somewhere on the page: the target's listener, then document's.
Click(target, width) ==
    /\ menuStarted
    /\ menu' = documentListener(targetListener(menu, target, width), target, width)
    /\ Len(menu'.focusTimers) <= MaxFocusTimers
    /\ ev' = Event(ClickEvent[target], 0)
    /\ UNCHANGED <<menuStarted, activeElement, resizeTimers, numNavItems,
                   loadFired, innerWidth>>
    /\ UNCHANGED notMenu

\* What the browser does with a Tab that no listener prevented: the focus
\* moves to the next (Shift: the previous) focusable element, out of the
\* nav links past their last (first) one.
browserTab(i, last, shiftKey) ==
    IF shiftKey
    THEN IF i > 0 THEN NavItem(i - 1) ELSE Elsewhere
    ELSE IF i < last THEN NavItem(i + 1) ELSE Elsewhere

focusTrapNone(i, last, shiftKey) == browserTab(i, last, shiftKey)

\* The Tab branch of the keydown listener: Shift+Tab on the first focusable
\* element goes to the last, Tab on the last to the first; any other Tab is
\* left to the browser.
focusTrap(i, last, shiftKey) ==
    IF shiftKey
    THEN IF i = 0 THEN NavItem(last) ELSE browserTab(i, last, shiftKey)
    ELSE IF i = last THEN NavItem(0) ELSE browserTab(i, last, shiftKey)

\* keydown inside .nav-links; the focus is on nav item number activeElement.idx.
KeyDown(key, shiftKey, width) ==
    /\ menuStarted
    /\ activeElement.kind = "nav"
    /\ ev' = Event(IF key = "Tab" /\ shiftKey THEN "keyShiftTab"
                   ELSE IF key = "Tab" THEN "keyTab"
                   ELSE IF key = "Escape" THEN "keyEscape" ELSE "keyOther",
                   activeElement.idx)
    /\ LET last == numNavItems - 1
           i == activeElement.idx
       IN IF ~menu.isMenuOpen
          THEN \* the listener returns at once
               /\ activeElement' = IF key = "Tab"
                                   THEN browserTab(i, last, shiftKey)
                                   ELSE activeElement
               /\ UNCHANGED menu
          ELSE IF key = "Escape"
          THEN /\ menu' = closeMenu(menu, width)
               /\ Len(menu'.focusTimers) <= MaxFocusTimers
               /\ UNCHANGED activeElement
          ELSE IF key # "Tab"
          THEN UNCHANGED <<menu, activeElement>>
          ELSE /\ UNCHANGED menu
               /\ activeElement' = focusTrap(i, last, shiftKey)
    /\ UNCHANGED <<menuStarted, resizeTimers, numNavItems, loadFired,
                   innerWidth>>
    /\ UNCHANGED notMenu

\* resize of the window to width w: the debounce timer is reset.
Resize(w) ==
    /\ menuStarted
    /\ innerWidth' = w
    /\ resizeTimers' = clearTimeout(resizeTimers) + 1
    /\ resizeTimers' <= MaxResizeTimers
    /\ ev' = Event("resize", w)
    /\ UNCHANGED <<menuStarted, menu, activeElement, numNavItems, loadFired>>
    /\ UNCHANGED notMenu

\* A 100 ms resize timeout fires; width is what getScrollbarWidth() returns.
ResizeTimeout(width) ==
    /\ resizeTimers > 0
    /\ resizeTimers' = resizeTimers - 1
    /\ LET closed == IF innerWidth > MobileBreakpoint /\ menu.isMenuOpen
                     THEN closeMenu(menu, width) ELSE menu
       IN menu' = IF closed.isMenuOpen /\ width # closed.scrollbarWidth
                  THEN [closed EXCEPT !.bodyScrollbarVar = width,
                                      !.scrollbarWidth = width]
                  ELSE closed
    /\ Len(menu'.focusTimers) <= MaxFocusTimers
    /\ ev' = Event("resizeTimeout", 0)
    /\ UNCHANGED <<menuStarted, activeElement, numNavItems, loadFired,
                   innerWidth>>
    /\ UNCHANGED notMenu

\* The window's load event; hash is whether location.hash is non-empty.
Load(hash, width) ==
    /\ menuStarted
    /\ ~loadFired
    /\ loadFired' = TRUE
    /\ menu' = IF hash THEN closeMenu(menu, width) ELSE menu
    /\ Len(menu'.focusTimers) <= MaxFocusTimers
    /\ ev' = Event("load", IF hash THEN 1 ELSE 0)
    /\ UNCHANGED <<menuStarted, activeElement, resizeTimers, numNavItems,
                   innerWidth>>
    /\ UNCHANGED notMenu

\* The oldest 50 ms focus timeout of toggleMenu fires.
FocusTimeout ==
    /\ menu.focusTimers # <<>>
    /\ menu' = [menu EXCEPT !.focusTimers = Tail(@)]
    /\ activeElement' =
           IF Head(menu.focusTimers) = "menuToggle" THEN MenuToggleEl
           ELSE IF numNavItems > 0 THEN NavItem(0)      \* if (firstNavItem)
           ELSE activeElement
    /\ ev' = Event("focusTimeout", 0)
    /\ UNCHANGED <<menuStarted, resizeTimers, numNavItems, loadFired,
                   innerWidth>>
    /\ UNCHANGED notMenu

MenuNext ==
    \/ \E target \in ClickTargets, width \in ScrollbarWidths :
           Click(target, width)
    \/ \E key \in {"Tab", "Escape", "Other"}, shiftKey \in BOOLEAN,
          width \in ScrollbarWidths : KeyDown(key, shiftKey, width)
    \/ \E w \in Widths : Resize(w)
    \/ \E width \in ScrollbarWidths : ResizeTimeout(width)
    \/ \E hash \in BOOLEAN, width \in ScrollbarWidths : Load(hash, width)
    \/ FocusTimeout

(***************************************************************************)
(* initWaitlistForm                                                        *)
(***************************************************************************)
\* The submit button as the markup has it.
InitialButton == [disabled |-> FALSE, label |-> "markup", classes |-> {}]

\* this.querySelector('button[type="submit"]') on a form without one
NoButton == [disabled |-> FALSE, label |-> "null", classes |-> {}]

\* What the awaited fetch settles with: a rejection, or a Response with its
\* status, its ok flag (status in the range 200-299) and its body.
Statuses == {200, 201, 404, 500}
Bodies == {"json", "text"}

Rejection == [rejected |-> TRUE, ok |-> FALSE, status |-> 0, body |-> ""]
NoResponse == [rejected |-> FALSE, ok |-> FALSE, status |-> 0, body |-> ""]

Responses ==
    {Rejection}
    \cup {[rejected |-> FALSE, ok |-> st \in 200..299, status |-> st, body |-> b] :
             st \in Statuses, b \in Bodies}

Timer(kind, id, original, due) ==
    [kind |-> kind, id |-> id, original |-> original, due |-> due]

successTimersKeepMessage(id, original) ==
    << Timer("resetButton", id, original, 3000) >>

\* The two timeouts of the success branch, in the order they are set.
successTimers(id, original) ==
    << Timer("removeSuccess", id, original, 5000),
       Timer("resetButton", id, original, 3000) >>

\* The timeout of the catch block.
errorTimers(id, original) ==
    << Timer("removeError", id, original, 5000) >>

fetchesAfterFailureRetry(n) == n + 1

\* POSTs issued once the catch block has run: it calls fetch nowhere.
fetchesAfterFailure(n) == n

\* A timeout may fire when it is due and no older timeout of the same delay
\* is due too (timeouts of equal delay fire in the order they were set).
MayFire(i) ==
    /\ timers[i].due = 0
    /\ \A j \in 1..(i - 1) :
           ~(timers[j].due = 0 /\ (timers[j].kind = "resetButton")
                                    = (timers[i].kind = "resetButton"))

RemoveAt(seq, i) == SubSeq(seq, 1, i - 1) \o SubSeq(seq, i + 1, Len(seq))

FormInitWith(hasSubmitButton) ==
    /\ fields = "empty"
    /\ button = IF hasSubmitButton THEN InitialButton ELSE NoButton
    /\ requests = {}
    /\ messages = {}
    /\ timers = <<>>
    /\ posts = 0
    /\ submits = 0
    /\ logged = 0
    /\ formErrors = 0
    /\ response = NoResponse

FormInit == FormInitWith(TRUE)

\* The user types into the form.
TypeInput ==
    /\ fields = "empty"
    /\ fields' = "filled"
    /\ ev' = Event("input", 0)
    /\ UNCHANGED <<button, requests, messages, timers, posts, submits, logged,
                   formErrors, response>>
    /\ UNCHANGED notForm

\* A submit event: the handler up to its await.  Without a submit button
\* submitButton is null and reading submitButton.innerHTML throws, before
\* the try block and so before the fetch.
Submit ==
    /\ submits < MaxSubmits
    /\ submits' = submits + 1
    /\ IF button = NoButton
       THEN /\ formErrors' = formErrors + 1
            /\ UNCHANGED <<requests, button, posts>>
       ELSE /\ requests' = requests \cup
                   {[id |-> submits', originalButtonText |-> button.label]}
            /\ button' = [button EXCEPT !.disabled = TRUE, !.label = "sending"]
            /\ posts' = posts + 1
            /\ UNCHANGED formErrors
    /\ ev' = Event("submit", submits')
    /\ UNCHANGED <<fields, messages, timers, logged, response>>
    /\ UNCHANGED notForm

responseOkAndJson(resp) == resp.ok /\ resp.body = "json"

\* if (response.ok)
responseOk(resp) == resp.ok

\* The handler of request r after its await, the fetch having settled with
\* resp: the success branch, or the catch block (entered by the rejection
\* or by the throw of the else branch).
handleResponse(r, resp) ==
    IF ~resp.rejected /\ responseOk(resp)
    THEN [button |-> [button EXCEPT !.label = "thanks",
                                    !.classes = @ \cup {"success"}],
          fields |-> "empty",                              \* this.reset()
          messages |-> messages \cup {[id |-> r.id, kind |-> "form-success"]},
          timers |-> timers \o successTimers(r.id, r.originalButtonText),
          logged |-> logged,
          posts |-> posts]
    ELSE [button |-> [button EXCEPT !.label = "error",
                                    !.classes = @ \cup {"error"}],
          fields |-> fields,
          messages |-> messages \cup {[id |-> r.id, kind |-> "form-error"]},
          timers |-> timers \o errorTimers(r.id, r.originalButtonText),
          logged |-> logged + 1,
          posts |-> fetchesAfterFailure(posts)]

\* The fetch of request r settles with resp.
Respond(r, resp) ==
    /\ r \in requests
    /\ requests' = requests \ {r}
    /\ response' = resp
    /\ LET after == handleResponse(r, resp)
       IN /\ button' = after.button
          /\ fields' = after.fields
          /\ messages' = after.messages
          /\ timers' = after.timers
          /\ logged' = after.logged
          /\ posts' = after.posts
    /\ ev' = Event(IF resp.rejected THEN "respondRejected"
                   ELSE IF resp.ok THEN "respondOk" ELSE "respondNotOk", r.id)
    /\ UNCHANGED <<submits, formErrors>>
    /\ UNCHANGED notForm

\* 1000 ms pass with no timeout due.
AdvanceTime ==
    /\ timers # <<>>
    /\ \A i \in 1..Len(timers) : timers[i].due > 0
    /\ timers' = [i \in 1..Len(timers) |->
                     [timers[i] EXCEPT !.due = @ - 1000]]
    /\ ev' = Event("advanceTime", 0)
    /\ UNCHANGED <<fields, button, requests, messages, posts, submits, logged,
                   formErrors, response>>
    /\ UNCHANGED notForm

\* Timeout number i of the submit handler fires.
FormTimeout(i) ==
    /\ i \in 1..Len(timers)
    /\ MayFire(i)
    /\ timers' = RemoveAt(timers, i)
    /\ LET t == timers[i]
       IN CASE t.kind = "removeSuccess" ->
                 /\ messages' = messages \ {[id |-> t.id, kind |-> "form-success"]}
                 /\ UNCHANGED button
            [] t.kind = "resetButton" ->
                 /\ button' = [disabled |-> FALSE, label |-> t.original,
                               classes |-> button.classes \ {"success"}]
                 /\ UNCHANGED messages
            [] t.kind = "removeError" ->
                 /\ messages' = messages \ {[id |-> t.id, kind |-> "form-error"]}
                 /\ button' = [disabled |-> FALSE, label |-> t.original,
                               classes |-> button.classes \ {"error"}]
    /\ ev' = Event(timers[i].kind, timers[i].id)
    /\ UNCHANGED <<fields, requests, posts, submits, logged, formErrors,
                   response>>
    /\ UNCHANGED notForm

FormNext ==
    \/ TypeInput
    \/ Submit
    \/ \E r \in requests, resp \in Responses : Respond(r, resp)
    \/ AdvanceTime
    \/ \E i \in 1..Len(timers) : FormTimeout(i)

(***************************************************************************)
(* Scroll controllers                                                      *)
(***************************************************************************)
ScrollPositions == {0, 10, 150, 450}

\* The controllers throttled through requestAnimationFrame, and all of them.
Throttled == {"hero", "orb", "dark", "navbar"}
Controllers == Throttled \cup {"highlight"}
Guarded == {"hero", "orb", "dark"}            \* those with a ticking flag

\* section[id] elements in document order, and the '.nav-link' hrefs.
Sections ==
    << [id |-> "what-is", offsetTop |-> 300],
       [id |-> "vision",  offsetTop |-> 600] >>

Href(id) == <<"#", id>>                       \* `#${current}`
NavLinkHrefs == {Href("what-is"), Href("vision"), Href("waitlist")}

ScrollThresholdMobile == 20
ScrollThresholdDesktop == 8
HighlightOffset == 200

\* Layout the controllers read: header.offsetHeight, the heights of the
\* 'what-is' and 'vision' sections and window.innerHeight, in px.
DefaultGeometry ==
    [headerHeight |-> 250, whatIsHeight |-> 300, visionHeight |-> 400,
     windowHeight |-> 200]

Geometries ==
    [headerHeight : {0, 250}, whatIsHeight : {0, 300}, visionHeight : {0, 400},
     windowHeight : {0, 200}]

NumOrbs == 8
Orbs == 0..(NumOrbs - 1)

\* getBoundingClientRect().top of the section with the given id
RectTop(id, y) ==
    LET section == CHOOSE sec \in {Sections[i] : i \in 1..Len(Sections)} :
                       sec.id = id
    IN Num(section.offsetTop - y, 1)

\* Math.max(0, Math.min(1, x))
Clamp01(x) == MathMax(Zero, MathMin(One, x))

\* updateHeroFade(): the styles written to .hero
updateHeroFade(y, g) ==
    LET fadeStart == Num(50, 1)
        fadeEnd == jsMul(Num(g.headerHeight, 1), Num(8, 10))
        fadeProgress == Clamp01(jsDiv(jsSub(Num(y, 1), fadeStart),
                                      jsSub(fadeEnd, fadeStart)))
        rest == jsSub(One, fadeProgress)
        easedFade == jsSub(One, jsMul(rest, jsMul(rest, rest)))
    IN [opacity |-> jsSub(One, easedFade),
        translateY |-> jsMul(jsNeg(easedFade), Num(40, 1)),
        scale |-> jsSub(One, jsMul(easedFade, Num(2, 100)))]

\* updateOrbPositions(): the styles written to the orb of the given index
orbStyle(index, y, g, width) ==
    LET sectionHeight == Num(g.whatIsHeight, 1)
        isMobile == width <= MobileBreakpoint
        scrollIntoSection == jsNeg(RectTop("what-is", y))
        scrollProgress == jsDiv(scrollIntoSection, sectionHeight)
        startY == jsAdd(jsMul(sectionHeight, Num(7, 10)),
                        Num(index * (IF isMobile THEN 60 ELSE 80), 1))
        speed == IF isMobile THEN Num(6 + index, 10)
                 ELSE Num(80 + 15 * index, 100)
        orbY == jsSub(startY, jsMul(scrollIntoSection, speed))
        baseX == Num((2 * (index % 4) - 3) * (IF isMobile THEN 75 ELSE 100)
                     + index * (IF isMobile THEN 20 ELSE 30), 1)
        full == IF isMobile THEN Num(75, 100) ELSE Num(85, 100)
        top80 == jsMul(sectionHeight, Num(8, 10))
        top10 == jsMul(sectionHeight, Num(1, 10))
        entering ==
            IF jsGt(orbY, top80)
            THEN jsMul(MathMax(Zero,
                         jsSub(One, jsDiv(jsSub(orbY, top80),
                                          jsMul(sectionHeight, Num(3, 10))))),
                       full)
            ELSE full
        opacity ==
            IF jsLt(orbY, top10)
            THEN jsMul(MathMax(Zero, jsDiv(orbY, top10)), full)
            ELSE entering
    IN [opacity |-> opacity,
        \* translate(${orbX}px, ${orbY}px), orbX = baseX + wobble * amplitude
        baseX |-> baseX,
        wobble |-> MathSin(scrollProgress),
        amplitude |-> IF isMobile THEN 12 ELSE 20,
        orbY |-> orbY]

updateOrbPositions(y, g, width) == [index \in Orbs |-> orbStyle(index, y, g, width)]

\* updateSectionThemes(): class 'dark-mode' and --dark-opacity of #vision
updateSectionThemes(y, g) ==
    LET windowHeight == Num(g.windowHeight, 1)
        sectionTop == RectTop("vision", y)
        sectionHeight == Num(g.visionHeight, 1)
        enterStart == jsMul(windowHeight, Num(8, 10))
        enterEnd == jsMul(windowHeight, Num(45, 100))
        exitStart == jsMul(jsNeg(sectionHeight), Num(65, 100))
        exitEnd == jsMul(jsNeg(sectionHeight), Num(9, 10))
        enterProgress ==
            jsSub(One, Clamp01(jsDiv(jsSub(sectionTop, enterEnd),
                                     jsSub(enterStart, enterEnd))))
        exitProgress ==
            IF jsLt(sectionTop, Zero)
            THEN Clamp01(jsDiv(jsSub(sectionTop, exitEnd),
                               jsSub(exitStart, exitEnd)))
            ELSE One
        r == MathMin(enterProgress, exitProgress)          \* rawProgress
        easedProgress ==
            jsMul(jsMul(r, jsMul(r, r)),
                  jsAdd(jsMul(r, jsSub(jsMul(r, Num(6, 1)), Num(15, 1))),
                        Num(10, 1)))
    IN IF jsGt(easedProgress, Num(2, 100))
       THEN [darkMode |-> TRUE, darkOpacity |-> easedProgress]
       ELSE [darkMode |-> FALSE, darkOpacity |-> Unset]

\* updateSectionThemes() with every operation rounded as binary64; top is
\* rect.top as a binary64 value, the window and the section have a height.
easedProgress64[r \in F64] ==
    F64Mul[F64Mul[F64Mul[r, r], r],
           F64Add[F64Mul[r, F64Sub[F64Mul[r, F64Of[6]], F64Of[15]]], F64Of[10]]]

Clamp64[x \in F64] == F64Max[F64Zero, F64Min[F64Of[1], x]]

enterProgress64[top \in F64, windowHeight \in F64] ==
    F64Sub[F64Of[1],
           Clamp64[F64Div[F64Sub[top, F64Mul[windowHeight, F64Lit[45, 100]]],
                          F64Sub[F64Mul[windowHeight, F64Lit[8, 10]],
                                 F64Mul[windowHeight, F64Lit[45, 100]]]]]]

exitProgress64[top \in F64, sectionHeight \in F64] ==
    IF F64Lt[top, F64Zero]
    THEN Clamp64[F64Div[F64Sub[top, F64Mul[F64Neg[sectionHeight], F64Lit[9, 10]]],
                        F64Sub[F64Mul[F64Neg[sectionHeight], F64Lit[65, 100]],
                               F64Mul[F64Neg[sectionHeight], F64Lit[9, 10]]]]]
    ELSE F64Of[1]

\* The write of --dark-opacity and the dark-mode class, made above 0.02
sectionTheme64[easedProgress \in F64] ==
    IF F64Lt[F64Lit[2, 100], easedProgress]
    THEN [darkMode |-> TRUE, written |-> TRUE, darkOpacity |-> easedProgress]
    ELSE [darkMode |-> FALSE, written |-> FALSE, darkOpacity |-> F64Zero]

updateSectionThemes64(top, g) ==
    sectionTheme64[easedProgress64[
        F64Min[enterProgress64[top, F64Of[g.windowHeight]],
               exitProgress64[top, F64Of[g.visionHeight]]]]]

\* n steps of 2^-15 px as a binary64 value (exact: n < 2^53)
FineValue[n \in Int] == F64Div[F64Of[n], F64Of[LimbBase]]

requestTickNoFrame(c, tick, pending) ==
    [ticking |-> [tick EXCEPT ![c] = TRUE], frames |-> pending]

requestTickUnguarded(c, tick, pending) ==
    [ticking |-> [tick EXCEPT ![c] = TRUE],
     frames |-> [pending EXCEPT ![c] = @ + 1]]

\* requestTick of controller c: a frame is requested unless one is pending.
requestTick(c, tick, pending) ==
    IF ~tick[c]
    THEN [ticking |-> [tick EXCEPT ![c] = TRUE],
          frames |-> [pending EXCEPT ![c] = @ + 1]]
    ELSE [ticking |-> tick, frames |-> pending]

\* The navbar's scroll listener: cancel the pending frame, request a new one.
navbarOnScroll(handle, pending) ==
    LET cancelled == IF handle = "pending" /\ pending["navbar"] > 0
                     THEN [pending EXCEPT !["navbar"] = @ - 1]
                     ELSE pending
    IN [cancelled EXCEPT !["navbar"] = @ + 1]

updateNavbarToggles(nav, y, width) ==
    [nav EXCEPT !.scrolled = ~@, !.lastScrollY = y]

\* updateNavbar()
updateNavbar(nav, y, width) ==
    LET isMobile == width <= MobileBreakpoint
        scrollThreshold == IF isMobile THEN ScrollThresholdMobile
                           ELSE ScrollThresholdDesktop
    IN [scrolled |-> y > scrollThreshold,
        lastScrollY |-> y,
        transition |-> IF isMobile /\ Abs(y - nav.lastScrollY) > 5
                       THEN "padding" ELSE nav.transition]

\* Pages offered to initSectionHighlighting: up to two sections, whose
\* offsetTop need not grow in document order (it is relative to the
\* offsetParent), and any set of nav links, one with href="#" among them.
SectionTops == {0, 300, 600}
SectionLists ==
    {<<>>}
    \cup {<<[id |-> "what-is", offsetTop |-> a]>> : a \in SectionTops}
    \cup {<<[id |-> "what-is", offsetTop |-> a],
            [id |-> "vision", offsetTop |-> b]>> :
              a \in SectionTops, b \in SectionTops}
Pages ==
    [sections : SectionLists,
     links : SUBSET (NavLinkHrefs \cup {Href("")})]

\* The page the other claims are checked on.
DefaultPage == [sections |-> Sections, links |-> NavLinkHrefs]

\* highlightNavigation(): the section found current, "" when none is.
RECURSIVE currentSection(_, _, _)
currentSection(y, i, current) ==
    IF i > Len(page.sections) THEN current
    ELSE currentSection(y, i + 1,
             IF y >= page.sections[i].offsetTop - HighlightOffset
             THEN page.sections[i].id ELSE current)

highlightNavigation(y) ==
    {h \in page.links : h = Href(currentSection(y, 1, ""))}

\* The styles before any controller has written one.
InitialStyles ==
    [hero |-> [opacity |-> Unset, translateY |-> Unset, scale |-> Unset],
     orb |-> [index \in Orbs |->
                 [opacity |-> Unset, baseX |-> Unset, wobble |-> Unset,
                  amplitude |-> 0, orbY |-> Unset]],
     dark |-> [darkMode |-> FALSE, darkOpacity |-> Unset]]

\* What a run of controller c's update function makes of the styles.
update(c, st, y, g, width) ==
    IF c = "hero" THEN [st EXCEPT !.hero = updateHeroFade(y, g)]
    ELSE IF c = "orb" THEN [st EXCEPT !.orb = updateOrbPositions(y, g, width)]
    ELSE [st EXCEPT !.dark = updateSectionThemes(y, g)]

ScrollInitOn(g, pg) ==
    /\ geometry = g
    /\ page = pg
    /\ scrollY = 0
    /\ listeners =
           {"navbar"}
           \* initSectionHighlighting returns early without sections or links
           \cup (IF Len(pg.sections) = 0 \/ pg.links = {} THEN {}
                 ELSE {"highlight"})
           \cup (IF heroFadeEnabled(reducedMotion, innerWidth) THEN {"hero"} ELSE {})
           \cup (IF orbParallaxEnabled(reducedMotion, innerWidth) THEN {"orb"} ELSE {})
           \cup (IF scrollEffectsEnabled(reducedMotion) THEN {"dark"} ELSE {})
    /\ ticking = [c \in Guarded |-> FALSE]
    /\ frames = [c \in Throttled |-> 0]
    /\ scrollTimeout = "undefined"
    /\ runs = [c \in Controllers |-> 0]
    \* updateOrbPositions() and updateSectionThemes() run once at the end of
    \* their initializers; updateHeroFade() does not
    /\ styledAt = [c \in Guarded |->
                      IF c # "hero" /\ c \in listeners THEN scrollY ELSE -1]
    /\ LET orb == IF "orb" \in listeners
                  THEN update("orb", InitialStyles, scrollY, g, innerWidth)
                  ELSE InitialStyles
       IN styles = IF "dark" \in listeners
                   THEN update("dark", orb, scrollY, g, innerWidth)
                   ELSE orb
    /\ navbar = [scrolled |-> FALSE, lastScrollY |-> 0, transition |-> ""]
    /\ activeLinks = IF "highlight" \in listeners
                     THEN highlightNavigation(scrollY) ELSE {}
    /\ anchorTimers = <<>>
    /\ fineTop = (Sections[2].offsetTop - scrollY) * LimbBase
    /\ fineDark = IF "dark" \in listeners /\ g.windowHeight > 0
                  THEN updateSectionThemes64(FineValue[fineTop], g)
                  ELSE [darkMode |-> FALSE, written |-> FALSE,
                        darkOpacity |-> F64Zero]

ScrollInitWith(g) == ScrollInitOn(g, DefaultPage)

ScrollInit == ScrollInitWith(DefaultGeometry)

\* A scroll event at position y: every registered listener runs.
Scroll(y) ==
    /\ runs["highlight"] < MaxScrollsPerFrame
    /\ scrollY' = y
    /\ LET hero == IF "hero" \in listeners
                   THEN requestTick("hero", ticking, frames)
                   ELSE [ticking |-> ticking, frames |-> frames]
           orb == IF "orb" \in listeners
                  THEN requestTick("orb", hero.ticking, hero.frames)
                  ELSE hero
           dark == IF "dark" \in listeners
                   THEN requestTick("dark", orb.ticking, orb.frames)
                   ELSE orb
       IN /\ ticking' = dark.ticking
          /\ frames' = IF "navbar" \in listeners
                       THEN navbarOnScroll(scrollTimeout, dark.frames)
                       ELSE dark.frames
    /\ scrollTimeout' = IF "navbar" \in listeners THEN "pending"
                        ELSE scrollTimeout
    \* highlightNavigation is itself the scroll listener
    /\ IF "highlight" \in listeners
       THEN /\ activeLinks' = highlightNavigation(y)
            /\ runs' = [runs EXCEPT !["highlight"] = @ + 1]
       ELSE UNCHANGED <<activeLinks, runs>>
    /\ ev' = Event("scroll", y)
    /\ UNCHANGED <<listeners, styledAt, geometry, styles, fineTop, fineDark,
                   navbar>>
    /\ UNCHANGED notScroll

\* An animation frame: every pending callback runs, reading the scroll
\* position of this moment.
Frame ==
    /\ runs' = [c \in Controllers |-> IF c \in Throttled THEN frames[c] ELSE 0]
    /\ styledAt' = [c \in Guarded |-> IF frames[c] > 0 THEN scrollY
                                      ELSE styledAt[c]]
    /\ LET ran(c, st) == IF frames[c] > 0
                          THEN update(c, st, scrollY, geometry, innerWidth)
                          ELSE st
       IN styles' = ran("dark", ran("orb", ran("hero", styles)))
    /\ ticking' = [c \in Guarded |-> IF frames[c] > 0 THEN FALSE
                                     ELSE ticking[c]]
    /\ navbar' = IF frames["navbar"] > 0
                 THEN updateNavbar(navbar, scrollY, innerWidth) ELSE navbar
    /\ scrollTimeout' = IF scrollTimeout = "pending" THEN "stale"
                        ELSE scrollTimeout
    /\ frames' = [c \in Throttled |-> 0]
    /\ ev' = Event("frame", 0)
    /\ UNCHANGED <<scrollY, listeners, geometry, fineTop, fineDark,
                   activeLinks>>
    /\ UNCHANGED notScroll

(***************************************************************************)
(* updateSectionThemes with its rounding: the scroll position is followed  *)
(* through rect.top of #vision, in steps of 2^-15 px (browsers report      *)
(* fractional positions), and --dark-opacity is computed in binary64.      *)
(***************************************************************************)
FineSteps == 0..7
FineTopsPx == {-380, -300, -260, 0, 90, 125, 160}

\* rect.top values offered, in steps of 2^-15 px: whole pixels, and the
\* first steps below enterEnd = windowHeight * 0.45
FineTops ==
    {px * LimbBase : px \in FineTopsPx}
    \cup {((DefaultGeometry.windowHeight * 45) \div 100) * LimbBase + k :
             k \in FineSteps}

\* A scroll event that leaves #vision at rect.top = n * 2^-15 px
FineScroll(n) ==
    /\ "dark" \in listeners
    /\ fineTop' = n
    /\ LET dark == requestTick("dark", ticking, frames)
       IN /\ ticking' = dark.ticking
          /\ frames' = dark.frames
    /\ ev' = Event("fineScroll", n)
    /\ UNCHANGED <<scrollY, listeners, scrollTimeout, runs, styledAt, geometry,
                   styles, fineDark, navbar, activeLinks>>
    /\ UNCHANGED notScroll

\* The animation frame requested by requestTick: updateSectionThemes() runs
FineFrame ==
    /\ frames["dark"] > 0
    /\ fineDark' = updateSectionThemes64(FineValue[fineTop], geometry)
    /\ ticking' = [ticking EXCEPT !["dark"] = FALSE]
    /\ frames' = [frames EXCEPT !["dark"] = 0]
    /\ ev' = Event("fineFrame", 0)
    /\ UNCHANGED <<scrollY, listeners, scrollTimeout, runs, styledAt, geometry,
                   styles, fineTop, navbar, activeLinks>>
    /\ UNCHANGED notScroll

RoundingNext ==
    \/ \E n \in FineTops : FineScroll(n)
    \/ FineFrame

(***************************************************************************)
(* initSmoothScrolling: the click listener of the a[href^="#"] anchors,    *)
(* here those that are '.nav-link's.  The scrollTo it starts arrives as    *)
(* scroll events.                                                          *)
(***************************************************************************)
\* this.classList.add('active')
anchorFeedback(links, href) == links \cup {href}

\* Click on the nav link with this href (the element it names exists)
AnchorClick(href) ==
    /\ Len(anchorTimers) < MaxAnchorTimers
    /\ activeLinks' = anchorFeedback(activeLinks, href)
    /\ anchorTimers' = Append(anchorTimers, href)
    /\ ev' = Event("anchorClick", 0)
    /\ UNCHANGED <<scrollY, listeners, ticking, frames, scrollTimeout, runs,
                   styledAt, geometry, styles, fineTop, fineDark, navbar>>
    /\ UNCHANGED notSmooth

\* The oldest 1000 ms timeout fires: this.classList.remove('active')
AnchorTimeout ==
    /\ anchorTimers # <<>>
    /\ activeLinks' = activeLinks \ {Head(anchorTimers)}
    /\ anchorTimers' = Tail(anchorTimers)
    /\ ev' = Event("anchorTimeout", 0)
    /\ UNCHANGED <<scrollY, listeners, ticking, frames, scrollTimeout, runs,
                   styledAt, geometry, styles, fineTop, fineDark, navbar>>
    /\ UNCHANGED notSmooth

HighlightNext ==
    \/ \E y \in ScrollPositions : Scroll(y)
    \/ Frame
    \/ \E href \in NavLinkHrefs : AnchorClick(href)
    \/ AnchorTimeout

(***************************************************************************)
(* Reveal on scroll                                                        *)
(***************************************************************************)
Cards == {"card"}              \* '.feature-card, ...' inside a '.section'
Animated == {"animated"}       \* '[data-animate]' elements
RevealElements == Cards \cup Animated

RevealInit ==
    /\ animateIn = IF reducedMotion THEN RevealElements ELSE {}
    /\ observed = IF reducedMotion THEN {} ELSE RevealElements
    /\ cardOpacity = [c \in Cards |->
                         IF scrollEffectsEnabled(reducedMotion) THEN "0" ELSE ""]
    /\ cardObserved = IF scrollEffectsEnabled(reducedMotion) THEN Cards ELSE {}
    /\ cardTimers = {}

unobserveNothing(watched, e) == watched

\* observer.unobserve(entry.target) / cardObserver.unobserve(card)
unobserve(watched, e) == watched \ {e}

\* The reveal observer reports element e intersecting.
Intersect(e) ==
    /\ e \in observed
    /\ animateIn' = animateIn \cup {e}
    /\ observed' = unobserve(observed, e)
    /\ ev' = Event("intersect", 0)
    /\ UNCHANGED <<cardOpacity, cardObserved, cardTimers>>
    /\ UNCHANGED notReveal

\* The card observer reports card c intersecting: its stagger timeout is set.
CardIntersect(c) ==
    /\ c \in cardObserved
    /\ cardTimers' = cardTimers \cup {c}
    /\ cardObserved' = unobserve(cardObserved, c)
    /\ ev' = Event("cardIntersect", 0)
    /\ UNCHANGED <<animateIn, observed, cardOpacity>>
    /\ UNCHANGED notReveal

\* The stagger timeout of card c fires.
CardTimeout(c) ==
    /\ c \in cardTimers
    /\ cardTimers' = cardTimers \ {c}
    /\ cardOpacity' = [cardOpacity EXCEPT ![c] = "1"]
    /\ ev' = Event("cardTimeout", 0)
    /\ UNCHANGED <<animateIn, observed, cardObserved>>
    /\ UNCHANGED notReveal

ScrollNext ==
    \/ \E y \in ScrollPositions : Scroll(y)
    \/ Frame
    \/ \E e \in RevealElements : Intersect(e)
    \/ \E c \in Cards : CardIntersect(c)
    \/ \E c \in Cards : CardTimeout(c)
    \/ \E w \in Widths : Resize(w)
    \/ \E width \in ScrollbarWidths : ResizeTimeout(width)

(***************************************************************************)
(* Documentation: the VitePress config and handleDocumentationLinks        *)
(***************************************************************************)
NodeEnvs == {"production", "development", "test", "staging", "Production",
             "undefined"}
DevPorts == {5173, 5174, 5177}  \* VitePress takes the next free port
DevServerPort == 5173
Hostnames == {"localhost", "127.0.0.1", "sylva.oleacomputer.com",
              "www.oleacomputer.com"}

\* A URL as an href holds it: host "" and port 0 for a relative one.
Url(host, port, path) == [host |-> host, port |-> port, path |-> path]

isDevStrict(env) == env = "development"

\* const isDev = process.env.NODE_ENV !== 'production'
isDev(env) == env # "production"

\* defineConfig({ base, themeConfig.nav }) as far as it depends on isDev
defineConfig(env) ==
    [base |-> IF isDev(env) THEN <<>> ELSE <<"docs">>,      \* '/' : '/docs/'
     backLink |-> IF isDev(env) THEN Url("http://localhost", 3000, <<>>)
                  ELSE Url("", 0, <<"..">>)]

\* The <a> elements of the page as the markup has them.
MarkupAnchors ==
    [nav |-> [href |-> Url("", 0, <<"docs">>), target |-> "", rel |-> ""],
     footer |-> [href |-> Url("", 0, <<"docs", "guide">>), target |-> "",
                 rel |-> ""],
     waitlist |-> [href |-> Url("", 0, <<"#waitlist">>), target |-> "",
                   rel |-> ""]]

\* a[href*="docs"]
DocsLinks(as) ==
    {a \in DOMAIN as :
        \/ \E i \in 1..Len(as[a].href.path) : as[a].href.path[i] = "docs"
        \/ as[a].href.host = "https://docs.sylva.oleacomputer.com"}

handleDocumentationLinks(as, host) ==
    LET isLocalhost == host = "localhost" \/ host = "127.0.0.1"
    IN [a \in DOMAIN as |->
           IF a \in DocsLinks(as)
           THEN [href |-> IF isLocalhost
                          THEN Url("http://localhost", DevServerPort, <<>>)
                          ELSE Url("https://docs.sylva.oleacomputer.com", 0, <<>>),
                 target |-> "_blank",
                 rel |-> "noopener noreferrer"]
           ELSE as[a]]

DocsInit ==
    /\ nodeEnv = "undefined"
    /\ docsConfig = defineConfig(nodeEnv)
    /\ docsPort = DevServerPort
    /\ hostname = "localhost"
    /\ anchors = handleDocumentationLinks(MarkupAnchors, hostname)

\* VitePress starts with NODE_ENV = env and evaluates its config; its dev
\* server listens on port.
StartDocs(env, port) ==
    /\ nodeEnv' = env
    /\ docsConfig' = defineConfig(env)
    /\ docsPort' = port
    /\ ev' = Event("startDocs", port)
    /\ UNCHANGED <<hostname, anchors>>
    /\ UNCHANGED notDocs

\* The page is loaded from host: DOMContentLoaded runs
\* handleDocumentationLinks on the markup.
PageLoad(host) ==
    /\ hostname' = host
    /\ anchors' = handleDocumentationLinks(MarkupAnchors, host)
    /\ ev' = Event("pageLoad", 0)
    /\ UNCHANGED <<nodeEnv, docsConfig, docsPort>>
    /\ UNCHANGED notDocs

DocsNext ==
    \/ \E env \in NodeEnvs, port \in DevPorts : StartDocs(env, port)
    \/ \E host \in Hostnames : PageLoad(host)

(***************************************************************************)
(* Specifications: the state after DOMContentLoaded, then the events of    *)
(* one component.                                                          *)
(***************************************************************************)
EnvInitWith(reduced, width) ==
    /\ reducedMotion = reduced
    /\ innerWidth = width
    /\ loadWidth = width
    /\ ev = Event("init", 0)

EnvInit == \E reduced \in BOOLEAN, width \in Widths : EnvInitWith(reduced, width)

InitLifecycle ==
    /\ EnvInit
    /\ LcInit
    /\ MenuInitWith(MaxNavItems)
    /\ FormInit
    /\ ScrollInit
    /\ RevealInit
    /\ DocsInit

SpecLifecycle == InitLifecycle /\ [][LcNext]_vars

InitMenu ==
    /\ EnvInit
    /\ LcInitWith(Len(phases))
    /\ MenuInit
    /\ FormInit
    /\ ScrollInit
    /\ RevealInit
    /\ DocsInit

SpecMenu == InitMenu /\ [][MenuNext]_vars

InitForm ==
    /\ EnvInitWith(FALSE, MobileBreakpoint + 1)
    /\ LcInitWith(Len(phases))
    /\ MenuInitWith(MaxNavItems)
    /\ FormInit
    /\ ScrollInit
    /\ RevealInit
    /\ DocsInit

SpecForm == InitForm /\ [][FormNext]_vars

InitScroll ==
    /\ EnvInit
    /\ LcInitWith(Len(phases))
    /\ MenuInitWith(MaxNavItems)
    /\ FormInit
    /\ ScrollInit
    /\ RevealInit
    /\ DocsInit

SpecScroll == InitScroll /\ [][ScrollNext]_vars

\* The waitlist form on pages with and without its submit button, and with
\* any number of lifecycle indicators (none: the panel is not initialized).
InitMarkup ==
    /\ EnvInitWith(FALSE, MobileBreakpoint + 1)
    /\ LcInit
    /\ MenuInitWith(MaxNavItems)
    /\ \E hasSubmitButton \in BOOLEAN : FormInitWith(hasSubmitButton)
    /\ ScrollInit
    /\ RevealInit
    /\ DocsInit

SpecMarkup == InitMarkup /\ [][FormNext]_vars

\* The scroll controllers alone, over every layout of Geometries.
EffectsNext ==
    \/ \E y \in ScrollPositions : Scroll(y)
    \/ Frame

InitEffects ==
    /\ EnvInit
    /\ LcInitWith(Len(phases))
    /\ MenuInitWith(MaxNavItems)
    /\ FormInit
    /\ \E g \in Geometries : ScrollInitWith(g)
    /\ RevealInit
    /\ DocsInit

SpecEffects == InitEffects /\ [][EffectsNext]_vars

SpecDocs == InitForm /\ [][DocsNext]_vars

SpecRounding == InitForm /\ [][RoundingNext]_vars

SpecHighlight == InitForm /\ [][HighlightNext]_vars

\* highlightNavigation on every page offered
SectionsNext ==
    \/ \E y \in ScrollPositions : Scroll(y)
    \/ Frame

InitSections ==
    /\ EnvInitWith(FALSE, MobileBreakpoint + 1)
    /\ LcInitWith(Len(phases))
    /\ MenuInitWith(MaxNavItems)
    /\ FormInit
    /\ \E pg \in Pages : ScrollInitOn(DefaultGeometry, pg)
    /\ RevealInit
    /\ DocsInit

SpecSections == InitSections /\ [][SectionsNext]_vars

\* The whole page.
Init ==
    /\ EnvInit
    /\ LcInit
    /\ MenuInit
    /\ FormInit
    /\ ScrollInit
    /\ RevealInit
    /\ DocsInit

Next ==
    \/ LcNext \/ MenuNext \/ FormNext \/ ScrollNext \/ DocsNext
    \/ \E href \in NavLinkHrefs : AnchorClick(href)
    \/ AnchorTimeout

Spec == Init /\ [][Next]_vars

(***************************************************************************)
(* Claims about the lifecycle panel, checked under SpecLifecycle.          *)
(***************************************************************************)

\* C2: from a mouseenter on the lifecycle display until the next mouseleave
\* no interval timer advances the phase, whatever else happens during the
\* hover (indicator clicks included).
C2_NoTickWhileHovering == ~(hovering /\ ev.type = "tick")

\* C4: for any number of indicators on the page, currentPhase stays an index
\* 0..3 of the 4-element phases list, and no display timeout finds an
\* undefined phase.
C4_PhaseIndexInBounds ==
    lcStarted => (currentPhase \in 0..3 /\ lcErrors = 0)

\* The fixed cyclic order of the panel's captions.
C9_Successor ==
    [Seed |-> "Operational", Operational |-> "Vetted",
     Vetted |-> "Prestige", Prestige |-> "Seed"]

\* C9: left untouched (no hover, no indicator click) the panel starts at Seed
\* and every interval tick moves the current phase p to (p + 1) mod 4, the
\* next caption in the order Seed, Operational, Vetted, Prestige, Seed.
C9_UntouchedCycle ==
    /\ (lcStarted => PhaseAt(currentPhase).title = "Seed")
    /\ [][(~touched' /\ ev'.type = "tick") =>
            /\ currentPhase \in 0..3
            /\ currentPhase' = (currentPhase + 1) % 4
            /\ PhaseAt(currentPhase').title =
                   C9_Successor[PhaseAt(currentPhase).title]]_vars

\* C9 witness: an untouched panel has ticked through all four phases and is
\* back at Seed.
C9_Witness ==
    /\ ~touched
    /\ ev = Event("tick", 0)
    /\ display.title = "Prestige"

(***************************************************************************)
(* Claims about the mobile menu, checked under SpecMenu.                   *)
(***************************************************************************)

\* C3: in every reachable state the menu flag matches the DOM: an open menu
\* has 'active' on the toggle, the overlay and the nav links, 'menu-open' on
\* html; a closed menu has none of them; aria-expanded is the flag's string.
C3_MenuMatchesDom ==
    menuStarted =>
        /\ menu.isMenuOpen =>
               /\ "active" \in menu.menuToggle
               /\ "active" \in menu.navOverlay
               /\ "active" \in menu.navLinks
               /\ "menu-open" \in menu.html
        /\ ~menu.isMenuOpen =>
               /\ "active" \notin menu.menuToggle
               /\ "active" \notin menu.navOverlay
               /\ "active" \notin menu.navLinks
               /\ "menu-open" \notin menu.html
        /\ menu.ariaExpanded = (IF menu.isMenuOpen THEN "true" ELSE "false")

\* C3 witness: the menu is open again after an earlier open and close.
C3_Witness ==
    /\ menu.isMenuOpen
    /\ "active" \in menu.navOverlay
    /\ menu.focusTimers = <<"menuToggle", "firstNavItem">>

\* The ARIA attribute and the class lists of the menu's elements.
C8_Dom(m) ==
    [ariaExpanded |-> m.ariaExpanded, menuToggle |-> m.menuToggle,
     navOverlay |-> m.navOverlay, navLinks |-> m.navLinks, html |-> m.html]

\* C8: toggling a closed menu twice (open, then close) leaves aria-expanded
\* and the class lists of the toggle, the overlay, the nav links and html as
\* they were before the first toggle.
C8_ToggleTwiceIdentity ==
    (menuStarted /\ ~menu.isMenuOpen) =>
        \A w1 \in ScrollbarWidths, w2 \in ScrollbarWidths :
            C8_Dom(toggleMenu(toggleMenu(menu, w1), w2)) = C8_Dom(menu)

\* C8 witness: two clicks on the toggle have opened and closed the menu.
C8_Witness ==
    /\ ~menu.isMenuOpen
    /\ ev.type = "clickMenuToggle"
    /\ menu.focusTimers = <<"firstNavItem", "menuToggle">>
    /\ menu.ariaExpanded = "false"
    /\ "active" \notin menu.menuToggle

(***************************************************************************)
(* Claims about the waitlist form, checked under SpecForm.                 *)
(***************************************************************************)

\* C5: when the POST resolves with response.ok true, the button shows the
\* confirmation label with class 'success', the form is reset and a
\* 'form-success' message is attached whose removal is due in 5000 ms; a
\* success message stays in the form only while its removal is pending, and
\* is gone once that timeout has fired.
C5_SuccessOutcome ==
    /\ ev.type = "respondOk" =>
           /\ button.label = "thanks"
           /\ "success" \in button.classes
           /\ fields = "empty"
           /\ [id |-> ev.arg, kind |-> "form-success"] \in messages
           /\ \E i \in 1..Len(timers) :
                  /\ timers[i].kind = "removeSuccess"
                  /\ timers[i].id = ev.arg
                  /\ timers[i].due = 5000
    /\ \A m \in messages :
           m.kind = "form-success" =>
               \E i \in 1..Len(timers) :
                   timers[i].kind = "removeSuccess" /\ timers[i].id = m.id
    /\ ev.type = "removeSuccess" =>
           [id |-> ev.arg, kind |-> "form-success"] \notin messages

\* C5 witness: the success message of a submission has been shown and its
\* timeout has removed it, the form being cleared.
C5_Witness ==
    /\ ev = Event("removeSuccess", 1)
    /\ messages = {}
    /\ fields = "empty"
    /\ submits = 1

\* C6: when the POST yields a non-ok response or the fetch rejects, the
\* entered values stay, the error is logged and a 'form-error' message is
\* attached whose removal is due in 5000 ms; when that timeout fires the
\* message is removed and the button is back in its original state: enabled,
\* the markup's label, no 'error' class.
C6_FailureOutcome ==
    /\ [][ev'.type \in {"respondNotOk", "respondRejected"} =>
            /\ fields' = fields
            /\ logged' = logged + 1
            /\ [id |-> ev'.arg, kind |-> "form-error"] \in messages'
            /\ \E i \in 1..Len(timers') :
                   /\ timers'[i].kind = "removeError"
                   /\ timers'[i].id = ev'.arg
                   /\ timers'[i].due = 5000]_vars
    /\ [][ev'.type = "removeError" =>
            /\ [id |-> ev'.arg, kind |-> "form-error"] \notin messages'
            /\ ~button'.disabled
            /\ button'.label = InitialButton.label
            /\ "error" \notin button'.classes]_vars

\* C7: each submit event causes exactly one POST and nothing else causes
\* one: the POSTs issued are as many as the submit events dispatched, at
\* every moment, through failures and timeouts alike.
C7_OnePostPerSubmit == posts = submits

\* C7 witness: a failed submission has run its course, its timeout included,
\* and the user has submitted again.
C7_Witness ==
    /\ posts = 2
    /\ logged = 1
    /\ ev = Event("submit", 2)
    /\ timers = <<>>

(***************************************************************************)
(* Claims about the scroll controllers, checked under SpecScroll.          *)
(***************************************************************************)

\* C1: every scroll-driven recompute (hero fade, orb parallax, dark-mode
\* transition, navbar class, nav section highlighting) runs at most once per
\* animation frame, however many scroll events arrive between two frames.
C1_OncePerFrame == \A c \in Controllers : runs[c] <= 1

\* C10: with the reduced-motion preference active at page load, the hero
\* fade, the orb parallax, the dark-mode transitions, the card effects and
\* the lifecycle panel are never started and never write an opacity or
\* transform style, whatever scroll events follow, and every reveal element
\* carries 'animate-in' from initialization on.
C10_ReducedMotionStill ==
    reducedMotion =>
        /\ listeners \cap Guarded = {}
        /\ \A c \in Guarded : styledAt[c] = -1
        /\ \A c \in Cards : cardOpacity[c] = ""
        /\ cardObserved = {} /\ cardTimers = {}
        /\ ~lcStarted
        /\ display.opacity = "" /\ display.scale = ""
        /\ ~ENABLED (LcNext /\ lcVars' # lcVars)
        /\ animateIn = RevealElements

\* C10 witness: under reduced motion the page has been scrolled and a frame
\* has run (the navbar, which is no opacity effect, has reacted).
C10_Witness ==
    /\ reducedMotion
    /\ ev.type = "frame"
    /\ scrollY = 450
    /\ navbar.scrolled
    /\ animateIn = RevealElements

(***************************************************************************)
(* Claims about the values the scroll controllers write.                   *)
(***************************************************************************)

\* C11: every opacity value written lies in [0, 1].  Under SpecRounding:
\* whenever --dark-opacity of #vision is set, its binary64 value is at least
\* 0 and at most 1.
C11_DarkOpacityInUnitInterval ==
    fineDark.written =>
        /\ ~F64Lt[fineDark.darkOpacity, F64Zero]
        /\ ~F64Lt[F64Of[1], fineDark.darkOpacity]

\* The numbers written into styles: opacity, the translate and scale
\* components of the transforms, and --dark-opacity.
WrittenNumbers ==
    {styles.hero.opacity, styles.hero.translateY, styles.hero.scale,
     styles.dark.darkOpacity}
    \cup {styles.orb[i].opacity : i \in Orbs}
    \cup {styles.orb[i].orbY : i \in Orbs}
    \cup {styles.orb[i].wobble : i \in Orbs}

\* C12: division by zero is guarded.  Under SpecEffects, whose layouts
\* include headers, sections and windows of height zero: no number written
\* into an opacity, a transform or --dark-opacity is NaN or infinite.
C12_NoDivisionByZeroWritten ==
    \A x \in WrittenNumbers : x \notin {NaN, PosInfinity, NegInfinity}

(***************************************************************************)
(* Claims about missing elements, checked under SpecMarkup.                *)
(***************************************************************************)

\* C13: whatever required elements are absent, the initializers and the
\* handlers they register complete without raising an error.  For the
\* waitlist form: the submit handler never raises an uncaught error.
C13_NoHandlerRaises == formErrors = 0

(***************************************************************************)
(* Claims about the resize listener of the menu, checked under SpecMenu.   *)
(***************************************************************************)

\* What a firing resize timeout does to the menu.
C14_TimeoutStep ==
    ev'.type = "resizeTimeout" =>
        IF innerWidth > MobileBreakpoint
        THEN /\ ~menu'.isMenuOpen
             /\ "active" \notin menu'.menuToggle \cup menu'.navOverlay
                                 \cup menu'.navLinks
             /\ "menu-open" \notin menu'.html
        ELSE menu'.isMenuOpen = menu.isMenuOpen

\* C14: a resize event leaves exactly one 100 ms timer pending (earlier ones
\* are cancelled), so at most one is ever pending; when the timer fires with
\* the width above 768 px the menu is closed and its classes are removed,
\* and when it fires with the width at or below 768 px the menu stays as
\* it was.
C14_ResizeDebounce ==
    /\ [](resizeTimers <= 1)
    /\ [][(ev'.type = "resize" => resizeTimers' = 1) /\ C14_TimeoutStep]_vars

\* An open menu was closed by the resize timeout on a wide window.
C14_Witness ==
    /\ ev.type = "resizeTimeout"
    /\ innerWidth > MobileBreakpoint
    /\ ~menu.isMenuOpen
    /\ menu.focusTimers # <<>>
    /\ menu.focusTimers[Len(menu.focusTimers)] = "menuToggle"

(***************************************************************************)
(* Claims about the scroll controllers' styles, checked under SpecScroll.  *)
(***************************************************************************)

\* The styles st hold what controller c's update function writes at scroll
\* position y on a window of the given width.
C15_Applied(c, st, y, width) ==
    IF c = "hero" THEN st.hero = updateHeroFade(y, geometry)
    ELSE IF c = "orb" THEN st.orb = updateOrbPositions(y, geometry, width)
    ELSE st.dark = updateSectionThemes(y, geometry)

\* No frame pending: what is applied is the function of the scroll position.
C15_Settled ==
    /\ \A c \in Guarded :
           frames[c] = 0 /\ styledAt[c] # -1 =>
               /\ styledAt[c] = scrollY
               /\ \E width \in Widths : C15_Applied(c, styles, scrollY, width)
    /\ frames["navbar"] = 0 /\ scrollTimeout # "undefined" =>
           /\ navbar.lastScrollY = scrollY
           /\ \E width \in Widths :
                  navbar.scrolled = updateNavbar(navbar, scrollY, width).scrolled
    /\ activeLinks = highlightNavigation(scrollY)

\* C15: a frame callback applies its function of the scroll position of the
\* moment it runs, so once no frame is pending the styles and classes
\* applied are those of the final scroll position.
C15_LatestStateApplied ==
    /\ []C15_Settled
    /\ [][ev'.type = "frame" =>
             /\ \A c \in Guarded :
                    frames[c] > 0 => C15_Applied(c, styles', scrollY', innerWidth)
             /\ frames["navbar"] > 0 =>
                    navbar' = updateNavbar(navbar, scrollY', innerWidth)
             /\ \A c \in Throttled : frames'[c] = 0]_vars

\* The frame after a scroll to the last offered position has restyled the
\* hero, the orbs and #vision for that position.
C15_Witness ==
    /\ ev.type = "frame"
    /\ scrollY = 450
    /\ Guarded \subseteq listeners
    /\ \A c \in Guarded : styledAt[c] = 450
    /\ styles.hero = updateHeroFade(450, geometry)
    /\ navbar.scrolled

C17_SecondRunSame ==
    /\ \A c \in Guarded :
           update(c, update(c, styles, scrollY, geometry, innerWidth),
                  scrollY, geometry, innerWidth)
           = update(c, styles, scrollY, geometry, innerWidth)
    /\ updateNavbar(updateNavbar(navbar, scrollY, innerWidth), scrollY,
                    innerWidth)
       = updateNavbar(navbar, scrollY, innerWidth)

\* C17: the update functions are idempotent.  Checked under SpecEffects,
\* over every layout of Geometries: from every reachable state,
\* running updateHeroFade, updateOrbPositions, updateSectionThemes or
\* updateNavbar twice leaves what running it once leaves, and a second
\* scroll event at the same position leaves the highlighted nav links as
\* the first left them.
C17_Idempotent ==
    /\ []C17_SecondRunSame
    /\ [][ev.type = "scroll" /\ ev'.type = "scroll" /\ scrollY' = scrollY
             => activeLinks' = activeLinks]_vars

\* The update functions have run in the middle of the hero's fade range.
C17_Witness ==
    /\ ev.type = "frame"
    /\ scrollY = 150
    /\ Guarded \subseteq listeners
    /\ styles.hero.opacity \notin {Unset, Zero, One}
    /\ navbar.scrolled
    /\ activeLinks # {}

(***************************************************************************)
(* Claims about the responses to the waitlist form, checked under SpecForm. *)
(***************************************************************************)

\* C18: the outcome of a submission depends only on response.ok and on
\* whether the fetch rejected.  For every request in flight, two responses
\* with the same ok flag, whatever their status codes and bodies, leave the
\* same button, fields, messages and timers, and a non-ok response leaves
\* exactly what a rejected fetch leaves.
C18_OutcomeByOkOnly ==
    \A r \in requests : \A a, b \in Responses :
        (~a.rejected /\ a.ok) = (~b.rejected /\ b.ok) =>
            handleResponse(r, a) = handleResponse(r, b)

\* A 500 response has been handled while another request is in flight.
C18_Witness ==
    /\ ev.type = "respondNotOk"
    /\ response.status = 500
    /\ button.label = "error"
    /\ \E m \in messages : m.kind = "form-error"
    /\ requests # {}

(***************************************************************************)
(* Claims about the documentation site, checked under SpecDocs.            *)
(***************************************************************************)

\* C19: the base path is '/docs/' exactly when NODE_ENV is 'production' and
\* '/' otherwise, and the 'Back to Sylva' link is 'http://localhost:3000'
\* in development and '../' in production.
C19_BaseByBuildMode ==
    /\ docsConfig.base = <<"docs">> <=> nodeEnv = "production"
    /\ docsConfig.base = <<>> <=> nodeEnv # "production"
    /\ nodeEnv = "production" => docsConfig.backLink = Url("", 0, <<"..">>)
    /\ nodeEnv = "development" =>
           docsConfig.backLink = Url("http://localhost", 3000, <<>>)

\* VitePress has been started for production.
C19_Witness ==
    /\ ev.type = "startDocs"
    /\ nodeEnv = "production"
    /\ docsConfig.base = <<"docs">>
    /\ docsConfig.backLink = Url("", 0, <<"..">>)

\* C20: after handleDocumentationLinks every documentation link opens in a
\* new tab; on localhost or 127.0.0.1 it points to the VitePress dev server
\* at the port it listens on, and elsewhere it is a relative link to '/docs/'.
C20_DocsLinkTargets ==
    \A a \in DocsLinks(MarkupAnchors) :
        /\ anchors[a].target = "_blank"
        /\ anchors[a].href =
               IF hostname \in {"localhost", "127.0.0.1"}
               THEN Url("http://localhost", docsPort, <<>>)
               ELSE Url("", 0, <<"docs">>)

(***************************************************************************)
(* C21: at most one auto-rotate interval timer of the lifecycle panel is   *)
(* live at any time: the intervals created by startAutoRotate and not yet  *)
(* cleared number 0 or 1.                                                  *)
(***************************************************************************)
C21_AtMostOneInterval == Cardinality(liveIntervals) <= 1

(***************************************************************************)
(* C22: once no 'active' timeout of an anchor click is pending, a          *)
(* '.nav-link' carries class 'active' exactly when its href names the      *)
(* section highlightNavigation finds current at the present scroll         *)
(* position.                                                               *)
(***************************************************************************)
C22_HighlightMatchesSection ==
    anchorTimers = <<>> => activeLinks = highlightNavigation(scrollY)

(***************************************************************************)
(* C23: once every request of the waitlist form has completed and every    *)
(* timeout has fired, the submit button is enabled, shows the label it had *)
(* before the first submission and carries neither 'success' nor 'error'.  *)
(***************************************************************************)
C23_ButtonRestored ==
    (submits > 0 /\ requests = {} /\ timers = <<>>) => button = InitialButton

(***************************************************************************)
(* C24: at most one status message is attached to the waitlist form, so a  *)
(* 'form-success' and a 'form-error' message never show together.          *)
(***************************************************************************)
C24_OneStatusMessage ==
    /\ Cardinality(messages) <= 1
    /\ ~\E s, e \in messages : s.kind = "form-success" /\ e.kind = "form-error"

(***************************************************************************)
(* C25: every close trigger leaves the mobile menu closed whatever the     *)
(* state before it (a nav-item click, a click on the overlay itself, a     *)
(* click outside the nav links and the toggle, Escape inside the nav       *)
(* links, a load event with a URL hash), and the menu goes from closed to  *)
(* open only through a click on the menu toggle.                           *)
(***************************************************************************)
C25_CloseTriggerTypes ==
    {"clickNavItem", "clickNavOverlay", "clickNavOverlayChild", "clickOutside",
     "keyEscape"}

C25_CloseTriggers ==
    /\ [][(\/ ev'.type \in C25_CloseTriggerTypes
           \/ ev' = Event("load", 1)) => ~menu'.isMenuOpen]_vars
    /\ [][(~menu.isMenuOpen /\ menu'.isMenuOpen) =>
              ev'.type = "clickMenuToggle"]_vars

\* C25 witness: Escape, pressed inside the nav links of the open menu, has
\* closed it.
C25_Witness ==
    /\ ev.type = "keyEscape"
    /\ ~menu.isMenuOpen
    /\ menu.focusTimers = <<"menuToggle">>
    /\ menu.ariaExpanded = "false"

(***************************************************************************)
(* C26: a click on the menu toggle flips the menu state exactly once (the  *)
(* document listener never reverts it), and no single click event changes  *)
(* isMenuOpen more than once.  Each run of toggleMenu sets one focus       *)
(* timeout, so the timeouts a click adds count its runs.                   *)
(***************************************************************************)
C26_ClickEventTypes == {ClickEvent[target] : target \in ClickTargets}

C26_ToggleRuns == Len(menu'.focusTimers) - Len(menu.focusTimers)

C26_OneFlipPerClick ==
    /\ [][ev'.type = "clickMenuToggle" =>
              /\ menu'.isMenuOpen = ~menu.isMenuOpen
              /\ C26_ToggleRuns = 1]_vars
    /\ [][ev'.type \in C26_ClickEventTypes =>
              /\ C26_ToggleRuns \in {0, 1}
              /\ (C26_ToggleRuns = 1) = (menu'.isMenuOpen # menu.isMenuOpen)]_vars

\* C26 witness: two clicks on the toggle have opened the menu and closed it
\* again.
C26_Witness ==
    /\ ev.type = "clickMenuToggle"
    /\ ~menu.isMenuOpen
    /\ menu.focusTimers = <<"firstNavItem", "menuToggle">>

(***************************************************************************)
(* C27: for hero fade, orb parallax and dark-mode transitions the flag     *)
(* 'ticking' is true exactly when one frame callback of that controller is *)
(* scheduled and not yet run; every callback that runs resets the flag,    *)
(* and every scroll event leaves a recompute scheduled for each registered *)
(* controller, so the effect never stalls.                                 *)
(***************************************************************************)
C27_FlagMirrorsFrame ==
    \A c \in Guarded :
        /\ frames[c] \in {0, 1}
        /\ ticking[c] = (frames[c] = 1)
        /\ c \notin listeners => frames[c] = 0

C27_TickingMirrorsFrame ==
    /\ []C27_FlagMirrorsFrame
    /\ [][ev'.type = "frame" => \A c \in Guarded : ~ticking'[c]]_vars
    /\ [][ev'.type = "scroll" =>
              \A c \in Guarded \cap listeners :
                  ticking'[c] /\ frames'[c] = 1]_vars

\* C27 witness: after a frame has run the three callbacks, a scroll event
\* has scheduled them anew.
C27_Witness ==
    /\ ev.type = "scroll"
    /\ Guarded \subseteq listeners
    /\ \A c \in Guarded : ticking[c] /\ frames[c] = 1 /\ styledAt[c] # -1
    /\ scrollY # styledAt["hero"]

(***************************************************************************)
(* C28: once all pending display timeouts have fired, the display's        *)
(* data-phase and title are those of phases[currentPhase], exactly the     *)
(* indicator at index currentPhase has class 'active', and the display is  *)
(* not left faded or shrunk (opacity and scale are back at 1 once an       *)
(* animated update has changed them).                                      *)
(***************************************************************************)
C28_DisplayConverges ==
    (lcStarted /\ updateQ = <<>> /\ restoreQ = <<>>) =>
        /\ PhaseDefined(currentPhase)
        /\ display.phase = PhaseAt(currentPhase).name
        /\ display.title = PhaseAt(currentPhase).title
        /\ activeIndicators = {currentPhase}
        /\ display.opacity \in {InitialDisplay.opacity, "1"}
        /\ display.scale \in {InitialDisplay.scale, "1"}

(***************************************************************************)
(* C29: whenever the lifecycle panel elements are present, a click on      *)
(* indicator i, i other than the current phase, sets the current phase to  *)
(* i and restarts the rotation, so that the only live interval is the one  *)
(* created by the click (its first tick is due 4000 ms later); a click on  *)
(* the indicator of the current phase changes neither phase, display nor   *)
(* timer.                                                                  *)
(***************************************************************************)
C29_ClickAdvances ==
    [][ev'.type = "indicatorClick" =>
          IF ev'.arg # currentPhase
          THEN /\ currentPhase' = ev'.arg
               /\ autoRotateInterval' \notin liveIntervals
               /\ liveIntervals' = {autoRotateInterval'}
          ELSE UNCHANGED <<currentPhase, display, updateQ, restoreQ,
                           activeIndicators, liveIntervals,
                           autoRotateInterval>>]_vars

(***************************************************************************)
(* C30: focus follows the final menu state: when the last pending 50 ms    *)
(* focus timeout fires, keyboard focus is on the first nav item if the     *)
(* menu is open and on the menu toggle if it is closed, however the opens  *)
(* and closes before it were spaced (the page has a first nav item).       *)
(***************************************************************************)
C30_FocusFollowsMenu ==
    [][(/\ ev'.type = "focusTimeout"
        /\ menu'.focusTimers = <<>>
        /\ numNavItems > 0) =>
           activeElement' = IF menu'.isMenuOpen THEN NavItem(0)
                            ELSE MenuToggleEl]_vars

\* C30 witness: the menu was opened and closed, the last focus timeout has
\* fired and the focus is back on the toggle.
C30_Witness ==
    /\ ev.type = "focusTimeout"
    /\ menu.focusTimers = <<>>
    /\ numNavItems > 0
    /\ menu.bodyScrollbarVar # -1
    /\ ~menu.isMenuOpen
    /\ activeElement = MenuToggleEl

(***************************************************************************)
(* C31: reveal-on-scroll is one-shot and monotonic: an element is          *)
(* unobserved at its first intersection, so each report of the reveal      *)
(* observer reveals an element not revealed before and each stagger        *)
(* timeout of the card observer finds its card still hidden; and once an   *)
(* element has 'animate-in' (a card has opacity '1') no later event takes  *)
(* it away.                                                                *)
(***************************************************************************)
C31_RevealOnce ==
    /\ [][ev'.type = "intersect" =>
              /\ animateIn' # animateIn
              /\ Cardinality(observed') = Cardinality(observed) - 1]_vars
    /\ [][ev'.type = "cardIntersect" =>
              Cardinality(cardObserved') = Cardinality(cardObserved) - 1]_vars
    /\ [][ev'.type = "cardTimeout" =>
              \E c \in Cards : /\ cardOpacity[c] = "0"
                               /\ cardOpacity'[c] = "1"
                               /\ c \notin cardObserved']_vars
    /\ [][/\ animateIn \subseteq animateIn'
          /\ \A c \in Cards : cardOpacity[c] = "1" => cardOpacity'[c] = "1"]_vars

\* C31 witness: every element has been revealed, and a scroll event after
\* that has left the reveals in place.
C31_Witness ==
    /\ ~reducedMotion
    /\ ev.type = "scroll"
    /\ animateIn = RevealElements
    /\ observed = {}
    /\ cardObserved = {}
    /\ \A c \in Cards : cardOpacity[c] = "1"

(***************************************************************************)
(* C32: after highlightNavigation has run, the current section is the last *)
(* section in document order whose offsetTop minus 200 is at most          *)
(* window.scrollY, a '.nav-link' has class 'active' exactly when its href  *)
(* is '#' plus that section's id, and when no section qualifies no nav     *)
(* link is active.                                                         *)
(***************************************************************************)
C32_Qualifying ==
    {i \in 1..Len(page.sections) :
        page.sections[i].offsetTop - HighlightOffset <= scrollY}

C32_OneCurrentSection ==
    "highlight" \in listeners =>
        IF C32_Qualifying = {}
        THEN activeLinks = {}
        ELSE LET last == CHOOSE i \in C32_Qualifying :
                             \A j \in C32_Qualifying : j <= i
             IN activeLinks =
                    {h \in page.links : h = Href(page.sections[last].id)}

(***************************************************************************)
(* C33: while the menu is open, Tab focus is trapped inside the nav links: *)
(* Tab on the last focusable element moves focus to the first, Shift+Tab   *)
(* on the first moves it to the last, and no Tab takes the focus out of    *)
(* the nav links; while the menu is closed the keydown listener does       *)
(* nothing: the menu state is unchanged, a key other than Tab leaves the   *)
(* focus where it is, and Tab moves it as the browser does by default.     *)
(***************************************************************************)
C33_KeyTypes == {"keyTab", "keyShiftTab", "keyEscape", "keyOther"}

C33_Trapped ==
    (menu.isMenuOpen /\ ev'.type \in {"keyTab", "keyShiftTab"}) =>
        /\ activeElement'.kind = "nav"
        /\ activeElement'.idx \in 0..(numNavItems - 1)
        /\ (ev'.type = "keyTab" /\ activeElement.idx = numNavItems - 1) =>
               activeElement' = NavItem(0)
        /\ (ev'.type = "keyShiftTab" /\ activeElement.idx = 0) =>
               activeElement' = NavItem(numNavItems - 1)
        /\ menu' = menu

C33_TabTrappedWhileOpen ==
    /\ [][C33_Trapped]_vars
    /\ [][(~menu.isMenuOpen /\ ev'.type \in C33_KeyTypes) =>
              /\ menu' = menu
              /\ ev'.type \in {"keyEscape", "keyOther"} =>
                     activeElement' = activeElement
              /\ ev'.type \in {"keyTab", "keyShiftTab"} =>
                     activeElement' = browserTab(activeElement.idx,
                                                 numNavItems - 1,
                                                 ev'.type = "keyShiftTab")]_vars

\* C33 as stated: while the menu is closed a keydown in the nav links
\* changes neither focus nor menu state.
C33_ClosedKeydownChangesNothing ==
    /\ [][C33_Trapped]_vars
    /\ [][(~menu.isMenuOpen /\ ev'.type \in C33_KeyTypes) =>
              /\ menu' = menu
              /\ activeElement' = activeElement]_vars

\* C33 witness: Tab on the last nav item of the open menu has moved the
\* focus to the first.
C33_Witness ==
    /\ menu.isMenuOpen
    /\ numNavItems = MaxNavItems
    /\ ev = Event("keyTab", numNavItems - 1)
    /\ activeElement = NavItem(0)

====
